---- MODULE Spec2Model ----
(***************************************************************************)
(* The terminal session controller of gemini_modern_terminal:              *)
(* components/Terminal.tsx (the React component's state and handlers) and   *)
(* services/geminiService.ts (the backend wrappers and their two module-    *)
(* level chat handles).                                                     *)
(*                                                                         *)
(* A JavaScript string is a sequence of one-character strings; a fixed      *)
(* message of the program is a one-token sequence holding the message.      *)
(* A line's text is string | string[]: the record [arr, v] keeps which of   *)
(* the two it is (arr) and its value(s) (v, one element when arr is FALSE). *)
(* Every action is one macrotask of the browser's event loop: React batches *)
(* the state updates made inside it and renders before the next event.      *)
(***************************************************************************)
EXTENDS Integers, Sequences, FiniteSets, TLC

\* ---------------------------------------------------------------- bounds
\* user-initiated activities (accepted submissions, microphone starts) per run
MaxSubmits == 3
\* SDK chunks one streamed response may carry
MaxChunks == 2
\* status polls of one video operation that may answer "not done"
MaxPolls == 4

\* ---------------------------------------------------------------- strings
NL == "\n"
SP == " "
Null == <<"<null>">>

\* String.prototype.toLowerCase, on the letters the inputs use
LowerChar(c) ==
    CASE c = "E" -> "e" [] c = "X" -> "x" [] c = "I" -> "i" [] c = "T" -> "t"
      [] c = "C" -> "c" [] c = "H" -> "h" [] c = "A" -> "a"
      [] OTHER -> c

toLowerCase(s) == [i \in 1..Len(s) |-> LowerChar(s[i])]

IsSpace(c) == c = SP \/ c = NL

RECURSIVE trimStart(_)
trimStart(s) == IF s # <<>> /\ IsSpace(Head(s)) THEN trimStart(Tail(s)) ELSE s

RECURSIVE trimEnd(_)
trimEnd(s) ==
    IF s # <<>> /\ IsSpace(s[Len(s)]) THEN trimEnd(SubSeq(s, 1, Len(s) - 1)) ELSE s

\* String.prototype.trim
trim(s) == trimEnd(trimStart(s))

\* String.prototype.split(sep) for a one-character separator:
\* "".split(sep) is [""], "a\n".split("\n") is ["a", ""]
RECURSIVE split(_, _)
split(s, sep) ==
    IF \A i \in 1..Len(s) : s[i] # sep
    THEN <<s>>
    ELSE LET i == CHOOSE k \in 1..Len(s) : s[k] = sep /\ \A j \in 1..(k - 1) : s[j] # sep
         IN  <<SubSeq(s, 1, i - 1)>> \o split(SubSeq(s, i + 1, Len(s)), sep)

\* Array.prototype.join(' ')
RECURSIVE join(_)
join(a) ==
    IF a = <<>> THEN <<>>
    ELSE IF Len(a) = 1 THEN a[1]
    ELSE a[1] \o <<SP>> \o join(Tail(a))

\* commandStr.trim().split(' ').filter(Boolean)
Tokens(commandStr) == SelectSeq(split(trim(commandStr), SP), LAMBDA x : x # <<>>)

\* String.prototype.startsWith
startsWith(s, p) == Len(p) <= Len(s) /\ SubSeq(s, 1, Len(p)) = p

\* JavaScript truthiness of a string | null value
Falsy(x) == x = Null \/ x = <<>>

\* ---------------------------------------------------------------- lines
Str(s) == [arr |-> FALSE, v |-> <<s>>]
Arr(a) == [arr |-> TRUE, v |-> a]

Line(type, text) == [type |-> type, text |-> text, sources |-> <<>>]
SourcesLine(srcs) == [type |-> "SOURCES", text |-> Str(<<>>), sources |-> srcs]

\* constants.ts: six lines of ASCII art and fifteen lines of text, all SYSTEM
WELCOME_LINES ==
    [i \in 1..21 |-> Line("SYSTEM", Str(<<IF i <= 6 THEN "<ascii>" ELSE "<welcome>">>))]

COMMANDS ==
    << <<"h","e","l","p">>, <<"a","s","k">>, <<"c","h","a","t">>,
       <<"s","e","a","r","c","h">>, <<"c","o","d","e">>, <<"i","m","a","g","e">>,
       <<"e","d","i","t","i","m","g">>, <<"v","i","d","e","o">>,
       <<"u","p","l","o","a","d">>, <<"d","o","c","s">>,
       <<"c","h","a","t","d","o","c">>, <<"n","e","o","f","e","t","c","h">>,
       <<"d","a","t","e">>, <<"w","h","o","a","m","i">>, <<"a","b","o","u","t">>,
       <<"c","l","e","a","r">> >>

HELP_TEXT ==
    << <<"Available Commands:">> >> \o
    [i \in 1..Len(COMMANDS) |-> <<"  ">> \o COMMANDS[i] \o <<" - <description>">>]

ABOUT_TEXT ==
    << <<"Gemini Modern Terminal v1.0.0">>, <<"A React and Tailwind CSS project.">>,
       <<"Powered by the Google Gemini API.">> >>

USERNAME == <<"praveen">>

\* ---------------------------------------------------------------- messages
M_ApiKey == <<"Error: API_KEY is not configured. The application owner needs to set the process.env.API_KEY environment variable.">>
M_GeminiError == <<"Gemini API Error: <message>">>
M_NoChatSession == <<"Error: Chat session not started. This is an unexpected error.">>
M_NoDocSession == <<"Error: Document chat session not started. This is an unexpected error.">>
M_ImageNone == <<"Error: The AI did not return an image. Please try a different prompt.">>
M_EditNone == <<"Error: The AI did not return an image or text. Please try a different prompt.">>
M_ExitedChat == <<"Exited chat mode.">>
M_ExitedDoc == <<"Exited document chat mode.">>
M_EnteredChat == <<"Entered chat mode. Type exit to leave.">>
M_InDocChat == <<"Already in document chat mode. Type exit to leave first.">>
M_InChat == <<"Already in regular chat mode. Type exit to leave first.">>
M_NoActiveDoc == <<"No active document. Use docs select <filename> or upload a new file.">>
M_ChatdocUsage == <<"Usage: type chatdoc and press Enter to start a conversation.">>
M_NoImage == <<"No image to edit. Use the image command to generate one first.">>
M_EditInvalid == <<"The AI did not return a valid response.">>
M_VideoNone == <<"Video generation finished, but no video was returned. Please try a different prompt.">>
M_VideoReady == <<"Video generated! Downloading and preparing for playback...">>
M_VideoWait == <<"This can take a few minutes. Status will be checked periodically.">>
M_DocsCleared == <<"All documents cleared.">>
M_DocsUsage == <<"Usage: docs <list|select|clear>">>
M_UploadHint == <<"Use docs list to see all files or chatdoc to start a conversation.">>
M_MicDenied == <<"Microphone access denied. Please allow microphone permissions in your browser settings to use this feature.">>

\* the usage message without its prefix
Usage_Bare(rest) == rest

Usage(rest) == <<"Usage: ">> \o rest

pollMessages ==
    << <<"Still processing... The AI is animating the frames.">>,
       <<"Still processing... Polishing the final cut.">>,
       <<"Still processing... This is taking longer than usual, but we are still on it!">> >>

\* ---------------------------------------------------------------- state
VARIABLES
    lines, commandHistory, historyIndex, inputValue, suggestions,
    isLoading, isChatMode, isChatDocMode, isListening,
    documents, activeDoc, lastImage,   \* the useState cells
    chatSession, chatDocSession,       \* geminiService.ts module-level handles
    handles,                           \* handles created so far by ai.chats.create
    apiKey,                            \* whether process.env.API_KEY is set
    tasks,                             \* the suspended async handlers
    reads,                             \* FileReader reads in progress
    dialogOpen,                        \* the file picker opened by `upload`
    recog,                             \* the browser's SpeechRecognition engine
    nsub,                              \* user-initiated activities so far
    ev                                 \* the event handled last

uiVars == <<commandHistory, historyIndex, suggestions>>
modeVars == <<isChatMode, isChatDocMode>>
docVars == <<documents, activeDoc>>
svcVars == <<chatSession, chatDocSession, handles>>
envVars == <<reads, recog, isListening, apiKey>>

vars == <<lines, commandHistory, historyIndex, inputValue, suggestions,
          isLoading, isChatMode, isChatDocMode, isListening,
          documents, activeDoc, lastImage, chatSession, chatDocSession, handles,
          apiKey, tasks, reads, dialogOpen, recog, nsub, ev>>

NoSession == [id |-> 0, doc |-> Null]

\* the event handled last: its name, the text it carried, whether it was
\* accepted and, for the events of a stream, the stream's kind, the fragments
\* it has delivered and the index of the OUTPUT line it appended
Ev(op, cmd, ok) ==
    [op |-> op, cmd |-> cmd, ok |-> ok, kind |-> "", frags |-> <<>>, own |-> 0]

EvOf(op, t) ==
    [op |-> op, cmd |-> t.prompt, ok |-> TRUE, kind |-> t.kind, frags |-> t.frags,
     own |-> t.own]

Task(kind, prompt) ==
    [kind |-> kind, prompt |-> prompt, pc |-> "await", text |-> <<>>, n |-> 0,
     img |-> Null, frags |-> <<>>, own |-> 0, handle |-> 0]

Init ==
    /\ lines = WELCOME_LINES
    /\ commandHistory = <<>>
    /\ historyIndex = -1
    /\ inputValue = <<>>
    /\ suggestions = <<>>
    /\ isLoading = FALSE
    /\ isChatMode = FALSE
    /\ isChatDocMode = FALSE
    /\ isListening = FALSE
    /\ documents = <<>>
    /\ activeDoc = Null
    /\ lastImage = Null
    /\ chatSession = 0
    /\ chatDocSession = NoSession
    /\ handles = 0
    /\ apiKey \in BOOLEAN
    /\ tasks = {}
    /\ reads = {}
    /\ dialogOpen = FALSE
    /\ recog = "idle"
    /\ nsub = 0
    /\ ev = Ev("init", <<>>, TRUE)

\* ---------------------------------------------------------------- documents
\* documents is a JavaScript object used as a map: a sequence of [name, content]
\* in insertion order (the order of Object.keys)
docKeys(d) == [i \in 1..Len(d) |-> d[i].name]

HasKey(d, name) == \E i \in 1..Len(d) : d[i].name = name

\* names every object inherits from Object.prototype
ProtoKeys == { <<"c","o","n","s","t","r","u","c","t","o","r">> }

\* whether documents[name] is truthy
DocTruthy(d, name) ==
    \/ \E i \in 1..Len(d) : d[i].name = name /\ d[i].content # <<>>
    \/ ~HasKey(d, name) /\ name \in ProtoKeys

\* documents[name] as embedded in a template string
DocText(d, name) ==
    IF HasKey(d, name)
    THEN (CHOOSE e \in {d[i] : i \in 1..Len(d)} : e.name = name).content
    ELSE IF name \in ProtoKeys
    THEN <<"function Object() { [native code] }">>
    ELSE <<"undefined">>

\* { ...prev, [name]: content }
DocPut(d, name, content) ==
    IF HasKey(d, name)
    THEN [i \in 1..Len(d) |-> IF d[i].name = name
                              THEN [name |-> name, content |-> content] ELSE d[i]]
    ELSE Append(d, [name |-> name, content |-> content])

\* ---------------------------------------------------------------- streams
\* the last line's text overwritten, whatever the last line is
SetLastText(ls, text) ==
    IF ls = <<>> THEN ls ELSE [ls EXCEPT ![Len(ls)].text = text]

\* the same, only when the last line is an OUTPUT line (handleSearch)
SetLastOutput(ls, text) ==
    IF ls # <<>> /\ ls[Len(ls)].type = "OUTPUT" THEN SetLastText(ls, text) ELSE ls

\* the finally block of a streaming handler
Finalize(kind, ls, streamedText) ==
    IF kind = "search"
    THEN SetLastOutput(ls, Arr(split(streamedText, NL)))
    ELSE SetLastText(ls, Arr(split(streamedText, NL)))

\* a streaming handler up to its first await: busy, and one empty OUTPUT line
StartStream(kind, prompt, echoed) ==
    /\ isLoading' = TRUE
    /\ lines' = Append(echoed, Line("OUTPUT", Str(<<>>)))
    \* the producer reads the module-level handle when the loop first pulls
    /\ tasks' = tasks \cup {[Task(kind, prompt) EXCEPT
                                !.own = Len(echoed) + 1,
                                !.handle = IF kind = "chat" THEN chatSession
                                           ELSE IF kind = "chatdoc" THEN chatDocSession.id
                                           ELSE 0]}

\* a streaming handler whose producer yields one message and returns before
\* any network call: it runs to its end inside the submitting event
StreamAtOnce(kind, msg, echoed) ==
    /\ lines' = Finalize(kind, SetLastText(Append(echoed, Line("OUTPUT", Str(<<>>))),
                                           Str(msg)), msg)
    /\ UNCHANGED <<isLoading, tasks>>

\* a command that ends inside the submitting event with outputLines appended
Sync(echoed, outputLines) ==
    /\ lines' = echoed \o outputLines
    /\ UNCHANGED <<isLoading, tasks>>

\* a command that suspends on a backend call with the busy flag set
StartCall(kind, prompt, echoed) ==
    /\ isLoading' = TRUE
    /\ lines' = echoed
    /\ tasks' = tasks \cup {[Task(kind, prompt) EXCEPT !.img = lastImage]}

handleAsk(prompt, echoed) ==
    IF apiKey THEN StartStream("ask", prompt, echoed)
    ELSE StreamAtOnce("ask", M_ApiKey, echoed)

handleSearch(prompt, echoed) ==
    IF apiKey THEN StartStream("search", prompt, echoed)
    ELSE StreamAtOnce("search", M_ApiKey, echoed)

\* handleChat comparing the message with 'exit' as typed
handleChat_CaseSensitive(message, echoed) ==
    /\ IF message = <<"e","x","i","t">>
       THEN /\ isChatMode' = FALSE
            /\ Sync(echoed, <<Line("SYSTEM", Str(M_ExitedChat))>>)
       ELSE /\ UNCHANGED isChatMode
            /\ IF chatSession # 0 THEN StartStream("chat", message, echoed)
               ELSE StreamAtOnce("chat", M_NoChatSession, echoed)
    /\ UNCHANGED <<isChatDocMode, docVars, lastImage, svcVars, dialogOpen>>

handleChat(message, echoed) ==
    /\ IF toLowerCase(message) = <<"e","x","i","t">>
       THEN /\ isChatMode' = FALSE
            /\ Sync(echoed, <<Line("SYSTEM", Str(M_ExitedChat))>>)
       ELSE /\ UNCHANGED isChatMode
            /\ IF chatSession # 0 THEN StartStream("chat", message, echoed)
               ELSE StreamAtOnce("chat", M_NoChatSession, echoed)
    /\ UNCHANGED <<isChatDocMode, docVars, lastImage, svcVars, dialogOpen>>

handleChatDocConversation(message, echoed) ==
    /\ IF toLowerCase(message) = <<"e","x","i","t">>
       THEN /\ isChatDocMode' = FALSE
            /\ Sync(echoed, <<Line("SYSTEM", Str(M_ExitedDoc))>>)
       ELSE /\ UNCHANGED isChatDocMode
            /\ IF chatDocSession.id # 0 THEN StartStream("chatdoc", message, echoed)
               ELSE StreamAtOnce("chatdoc", M_NoDocSession, echoed)
    /\ UNCHANGED <<isChatMode, docVars, lastImage, svcVars, dialogOpen>>

\* ---------------------------------------------------------------- commands
ErrorLine(msg) == Line("ERROR", Str(msg))
SystemLine(msg) == Line("SYSTEM", Str(msg))

\* case 'chat'
cmdChat(echoed) ==
    IF isChatDocMode
    THEN /\ Sync(echoed, <<ErrorLine(M_InDocChat)>>)
         /\ UNCHANGED <<modeVars, svcVars>>
    ELSE /\ isChatMode' = TRUE
         /\ UNCHANGED isChatDocMode
         \* startChat()
         /\ IF apiKey
            THEN /\ handles' = handles + 1
                 /\ chatSession' = handles + 1
                 /\ UNCHANGED chatDocSession
            ELSE UNCHANGED svcVars
         /\ Sync(echoed, <<SystemLine(M_EnteredChat)>>)

\* case chatdoc, entering the document chat as a kind of chat: both flags set
cmdChatdoc_SetsBoth(args, echoed) ==
    IF isChatMode
    THEN /\ Sync(echoed, <<Line("ERROR", Str(M_InChat))>>)
         /\ UNCHANGED <<modeVars, svcVars>>
    ELSE IF Falsy(activeDoc)
    THEN /\ Sync(echoed, <<Line("ERROR", Str(M_NoActiveDoc))>>)
         /\ UNCHANGED <<modeVars, svcVars>>
    ELSE IF Len(args) > 0
    THEN /\ Sync(echoed, <<Line("ERROR", Str(M_ChatdocUsage))>>)
         /\ UNCHANGED <<modeVars, svcVars>>
    ELSE /\ IF apiKey
            THEN /\ handles' = handles + 1
                 /\ chatDocSession' = [id |-> handles + 1,
                                       doc |-> DocText(documents, activeDoc)]
                 /\ UNCHANGED chatSession
            ELSE UNCHANGED svcVars
         /\ isChatDocMode' = TRUE
         /\ isChatMode' = TRUE
         /\ Sync(echoed, <<Line("SYSTEM", Str(<<"Entered chat mode for ">> \o activeDoc))>>)

\* case chatdoc, with no check of the arguments
cmdChatdoc_IgnoresArgs(args, echoed) ==
    IF isChatMode
    THEN /\ Sync(echoed, <<Line("ERROR", Str(M_InChat))>>)
         /\ UNCHANGED <<modeVars, svcVars>>
    ELSE IF Falsy(activeDoc)
    THEN /\ Sync(echoed, <<Line("ERROR", Str(M_NoActiveDoc))>>)
         /\ UNCHANGED <<modeVars, svcVars>>
    ELSE /\ IF apiKey
            THEN /\ handles' = handles + 1
                 /\ chatDocSession' = [id |-> handles + 1,
                                       doc |-> DocText(documents, activeDoc)]
                 /\ UNCHANGED chatSession
            ELSE UNCHANGED svcVars
         /\ isChatDocMode' = TRUE
         /\ UNCHANGED isChatMode
         /\ Sync(echoed, <<Line("SYSTEM", Str(<<"Entered chat mode for ">> \o activeDoc))>>)

\* case 'chatdoc'
cmdChatdoc(args, echoed) ==
    IF isChatMode
    THEN /\ Sync(echoed, <<ErrorLine(M_InChat)>>)
         /\ UNCHANGED <<modeVars, svcVars>>
    ELSE IF Falsy(activeDoc)
    THEN /\ Sync(echoed, <<ErrorLine(M_NoActiveDoc)>>)
         /\ UNCHANGED <<modeVars, svcVars>>
    ELSE IF Len(args) > 0
    THEN /\ Sync(echoed, <<ErrorLine(M_ChatdocUsage)>>)
         /\ UNCHANGED <<modeVars, svcVars>>
    ELSE \* startChatDoc(documents[activeDoc])
         /\ IF apiKey
            THEN /\ handles' = handles + 1
                 /\ chatDocSession' = [id |-> handles + 1,
                                       doc |-> DocText(documents, activeDoc)]
                 /\ UNCHANGED chatSession
            ELSE UNCHANGED svcVars
         /\ isChatDocMode' = TRUE
         /\ UNCHANGED isChatMode
         /\ Sync(echoed, <<SystemLine(<<"Entered chat mode for ">> \o activeDoc)>>)

\* case 'docs'
\* docs clear, leaving the active document as it was
docsClear_KeepsActive(echoed) ==
    /\ documents' = <<>>
    /\ UNCHANGED activeDoc
    /\ Sync(echoed, <<SystemLine(M_DocsCleared)>>)

\* case 'docs', sub-command clear
docsClear(echoed) ==
    /\ documents' = <<>>
    /\ activeDoc' = Null
    /\ Sync(echoed, <<SystemLine(M_DocsCleared)>>)

cmdDocs(args, echoed) ==
    LET subCommand == IF Len(args) > 0 THEN args[1] ELSE Null
        docToSelect == IF Len(args) > 1 THEN args[2] ELSE Null
    IN
    IF subCommand = <<"l","i","s","t">>
    THEN /\ Sync(echoed,
                 IF Len(documents) = 0
                 THEN <<Line("OUTPUT", Str(<<"No documents uploaded.">>))>>
                 ELSE <<Line("OUTPUT", Str(<<"Uploaded documents:">>)),
                        Line("OUTPUT", Arr([i \in 1..Len(documents) |->
                            <<IF documents[i].name = activeDoc THEN "  * " ELSE "    ">>
                            \o documents[i].name]))>>)
         /\ UNCHANGED docVars
    ELSE IF subCommand = <<"s","e","l","e","c","t">>
    THEN IF Falsy(docToSelect)
         THEN /\ Sync(echoed, <<ErrorLine(Usage(<<"docs select <filename>">>))>>)
              /\ UNCHANGED docVars
         ELSE IF DocTruthy(documents, docToSelect)
         THEN /\ activeDoc' = docToSelect
              /\ UNCHANGED documents
              /\ Sync(echoed, <<SystemLine(<<"Active document set to ">> \o docToSelect)>>)
         ELSE /\ Sync(echoed, <<ErrorLine(<<"Document not found: ">> \o docToSelect)>>)
              /\ UNCHANGED docVars
    ELSE IF subCommand = <<"c","l","e","a","r">>
    THEN docsClear(echoed)
    ELSE /\ Sync(echoed, <<ErrorLine(M_DocsUsage)>>)
         /\ UNCHANGED docVars

\* case 'video', when the prompt is not empty
cmdVideo(prompt, echoed) ==
    LET started == echoed \o
            <<SystemLine(<<"Kicking off video generation for: ">> \o prompt),
              SystemLine(M_VideoWait)>>
    IN  IF apiKey
        THEN /\ isLoading' = TRUE
             /\ lines' = started
             /\ tasks' = tasks \cup {[Task("video", prompt) EXCEPT !.own = Len(started)]}
        ELSE \* generateVideo resolves at once with the configuration error
             /\ lines' = Append(started, ErrorLine(M_ApiKey))
             /\ UNCHANGED <<isLoading, tasks>>

\* code, image and editimg with a prompt: generateCode, generateImage and
\* editImage resolve at once with the configuration error when API_KEY is unset
cmdCall(kind, prompt, echoed) ==
    IF apiKey THEN StartCall(kind, prompt, echoed)
    ELSE IF kind = "code"
    THEN Sync(echoed, <<Line("OUTPUT", Arr(split(M_ApiKey, NL)))>>)
    ELSE IF kind = "image"
    THEN Sync(echoed, <<ErrorLine(M_ApiKey)>>)
    ELSE Sync(echoed, <<Line("OUTPUT", Arr(split(M_ApiKey, NL)))>>)

\* case editimg, with no check that an image is remembered
cmdEditimg_NoImageCheck(prompt, echoed) ==
    IF prompt = <<>>
    THEN Sync(echoed, <<ErrorLine(Usage(<<"editimg <your edit instruction>">>))>>)
    ELSE cmdCall("editimg", prompt, echoed)

\* case 'editimg' up to the await
cmdEditimg(prompt, echoed) ==
    IF prompt = <<>>
    THEN Sync(echoed, <<ErrorLine(Usage(<<"editimg <your edit instruction>">>))>>)
    ELSE IF Falsy(lastImage)
    THEN Sync(echoed, <<ErrorLine(M_NoImage)>>)
    ELSE cmdCall("editimg", prompt, echoed)

\* the default case naming the lower-cased word
cmdNotFound_Lowered(command) ==
    ErrorLine(<<"command not found: ">> \o toLowerCase(command))

\* the default case of the switch: command is the first word as typed
cmdNotFound(command) ==
    ErrorLine(<<"command not found: ">> \o command)

processCommand(commandStr, echoed) ==
    LET toks == Tokens(commandStr)
        command == IF toks = <<>> THEN <<>> ELSE toLowerCase(Head(toks))
        args == IF toks = <<>> THEN <<>> ELSE Tail(toks)
        prompt == join(args)
        plain(out) == /\ Sync(echoed, out)
                      /\ UNCHANGED <<modeVars, docVars, lastImage, svcVars, dialogOpen>>
    IN
    CASE toks = <<>> ->
           /\ lines' = echoed
                  /\ UNCHANGED <<isLoading, tasks, modeVars, docVars, lastImage, svcVars, dialogOpen>>
      [] command = <<"h","e","l","p">> -> plain(<<Line("OUTPUT", Arr(HELP_TEXT))>>)
      [] command = <<"c","l","e","a","r">> ->
           /\ lines' = <<>>
                  /\ UNCHANGED <<isLoading, tasks, modeVars, docVars, lastImage, svcVars, dialogOpen>>
      [] command = <<"c","h","a","t">> ->
           /\ cmdChat(echoed)
           /\ UNCHANGED <<docVars, lastImage, dialogOpen>>
      [] command = <<"a","s","k">> ->
           /\ IF prompt = <<>>
              THEN Sync(echoed, <<ErrorLine(Usage(<<"ask <your question>">>))>>)
              ELSE handleAsk(prompt, echoed)
           /\ UNCHANGED <<modeVars, docVars, lastImage, svcVars, dialogOpen>>
      [] command = <<"s","e","a","r","c","h">> ->
           /\ IF prompt = <<>>
              THEN Sync(echoed, <<ErrorLine(Usage(<<"search <your question>">>))>>)
              ELSE handleSearch(prompt, echoed)
           /\ UNCHANGED <<modeVars, docVars, lastImage, svcVars, dialogOpen>>
      [] command = <<"c","o","d","e">> ->
           /\ IF prompt = <<>>
              THEN Sync(echoed, <<ErrorLine(Usage(<<"code <your coding question>">>))>>)
              ELSE cmdCall("code", prompt, echoed)
           /\ UNCHANGED <<modeVars, docVars, lastImage, svcVars, dialogOpen>>
      [] command = <<"i","m","a","g","e">> ->
           /\ IF prompt = <<>>
              THEN Sync(echoed, <<ErrorLine(Usage(<<"image <a description of the image>">>))>>)
              ELSE cmdCall("image", prompt, echoed)
           /\ UNCHANGED <<modeVars, docVars, lastImage, svcVars, dialogOpen>>
      [] command = <<"e","d","i","t","i","m","g">> ->
           /\ cmdEditimg(prompt, echoed)
           /\ UNCHANGED <<modeVars, docVars, lastImage, svcVars, dialogOpen>>
      [] command = <<"v","i","d","e","o">> ->
           /\ IF prompt = <<>>
              THEN Sync(echoed, <<ErrorLine(Usage(<<"video <a description of the video>">>))>>)
              ELSE cmdVideo(prompt, echoed)
           /\ UNCHANGED <<modeVars, docVars, lastImage, svcVars, dialogOpen>>
      [] command = <<"u","p","l","o","a","d">> ->
           \* fileInputRef.current.click()
           /\ dialogOpen' = TRUE
           /\ Sync(echoed, <<>>)
           /\ UNCHANGED <<modeVars, docVars, lastImage, svcVars>>
      [] command = <<"d","o","c","s">> ->
           /\ cmdDocs(args, echoed)
           /\ UNCHANGED <<modeVars, lastImage, svcVars, dialogOpen>>
      [] command = <<"c","h","a","t","d","o","c">> ->
           /\ cmdChatdoc(args, echoed)
           /\ UNCHANGED <<docVars, lastImage, dialogOpen>>
      [] command = <<"d","a","t","e">> -> plain(<<Line("OUTPUT", Str(<<"<date>">>))>>)
      [] command = <<"w","h","o","a","m","i">> -> plain(<<Line("OUTPUT", Str(USERNAME))>>)
      [] command = <<"a","b","o","u","t">> -> plain(<<Line("OUTPUT", Arr(ABOUT_TEXT))>>)
      [] command = <<"n","e","o","f","e","t","c","h">> ->
           plain(<<Line("OUTPUT", Arr(<< <<"<neofetch>">> >>))>>)
      [] OTHER -> plain(<<cmdNotFound(Head(toks))>>)

\* ---------------------------------------------------------------- submission
\* if (isLoading || isListening) return;
ShouldDrop_IgnoresLoading == isListening

ShouldDrop == isLoading \/ isListening

\* the two early returns for an input that is empty after trimming
SkipsEmpty_Never(command) == FALSE

SkipsEmpty(command) == command = <<>>

\* the dispatch on the mode, with no document-chat branch
Route_NoDocBranch(command, echoed) ==
    IF isChatMode
    THEN /\ handleChat(command, echoed)
         /\ UNCHANGED <<commandHistory, historyIndex>>
    ELSE /\ commandHistory' = <<command>> \o commandHistory
         /\ historyIndex' = -1
         /\ processCommand(command, echoed)

\* the dispatch on the mode, leaving the recall cursor where it is
Route_KeepsCursor(command, echoed) ==
    IF isChatMode
    THEN /\ handleChat(command, echoed)
         /\ UNCHANGED <<commandHistory, historyIndex>>
    ELSE IF isChatDocMode
    THEN /\ handleChatDocConversation(command, echoed)
         /\ UNCHANGED <<commandHistory, historyIndex>>
    ELSE /\ commandHistory' = <<command>> \o commandHistory
         /\ UNCHANGED historyIndex
         /\ processCommand(command, echoed)

\* the dispatch on the mode
Route(command, echoed) ==
    IF isChatMode
    THEN /\ handleChat(command, echoed)
         /\ UNCHANGED <<commandHistory, historyIndex>>
    ELSE IF isChatDocMode
    THEN /\ handleChatDocConversation(command, echoed)
         /\ UNCHANGED <<commandHistory, historyIndex>>
    ELSE /\ commandHistory' = <<command>> \o commandHistory
         /\ historyIndex' = -1
         /\ processCommand(command, echoed)

\* handleSubmit, with value the content of the input box (inputValue). The
\* handler's last statement, setInputValue(''), runs when the awaited command
\* handler has returned: at once unless the handler suspended on the backend.
handleSubmit(value) ==
    LET command == trim(value)
        inChat == isChatMode \/ isChatDocMode
        lineType == IF inChat THEN "SYSTEM" ELSE "COMMAND"
        echoed == Append(lines, Line(lineType, Str(command)))
        frame == UNCHANGED <<modeVars, docVars, lastImage, svcVars, dialogOpen,
                             isLoading, tasks>>
    IN
    /\ suggestions' = <<>>
    /\ UNCHANGED envVars
    /\ IF ShouldDrop
       THEN /\ ev' = Ev("submit", command, FALSE)
            /\ inputValue' = value
            /\ UNCHANGED <<lines, commandHistory, historyIndex, nsub>>
            /\ frame
       ELSE /\ nsub < MaxSubmits
            /\ nsub' = nsub + 1
            /\ ev' = Ev("submit", command, TRUE)
            /\ IF SkipsEmpty(command)
               THEN /\ lines' = echoed
                    /\ inputValue' = IF inChat THEN value ELSE <<>>
                    /\ UNCHANGED <<commandHistory, historyIndex>>
                    /\ frame
               ELSE /\ Route(command, echoed)
                    /\ inputValue' = IF tasks' # tasks THEN value ELSE <<>>

\* ---------------------------------------------------------------- backend
\* what one SDK chunk of a streamed response may carry as text
Frags == { <<"a">>, <<NL, "b">>, <<"a", NL, "b">> }

\* the source lists a grounded chunk may carry (never empty: the service
\* yields a sources event only for a non-empty list)
SrcLists == { << [title |-> "t1", uri |-> "u1"], [title |-> "t2", uri |-> "u2"] >> }

Payload1 == <<"<png-1>">>
Payload2 == <<"<png-2>">>

StreamKinds == {"ask", "search", "chat", "chatdoc"}

Replace(t, u) == (tasks \ {t}) \cup {u}

\* the handler returns to handleSubmit, which clears the input box
Finish(t) ==
    /\ tasks' = tasks \ {t}
    /\ inputValue' = <<>>

rest == <<uiVars, modeVars, docVars, svcVars, envVars, dialogOpen, nsub>>

\* one SDK chunk of a streamed response arrives: the producer yields its text
\* and, for a grounded chunk of a search, the sources event right after it
StreamChunk(t, c, srcs) ==
    LET text == t.text \o c
        shown == IF t.kind = "search" THEN SetLastOutput(lines, Str(text))
                 ELSE SetLastText(lines, Str(text))
        u == [t EXCEPT !.text = text, !.n = @ + 1, !.frags = Append(@, c)]
    IN
    /\ t.kind \in StreamKinds
    /\ t.n < MaxChunks
    /\ srcs # <<>> => t.kind = "search"
    /\ lines' = IF srcs = <<>> THEN shown
                ELSE Append(SetLastOutput(shown, Arr(split(text, NL))), SourcesLine(srcs))
    /\ tasks' = Replace(t, u)
    /\ ev' = EvOf(IF srcs = <<>> THEN "chunk" ELSE "sources", u)
    /\ UNCHANGED <<isLoading, inputValue, lastImage, rest>>

\* the SDK stream ends: the handler's finally block
StreamEnd(t) ==
    /\ t.kind \in StreamKinds
    /\ lines' = Finalize(t.kind, lines, t.text)
    /\ isLoading' = FALSE
    /\ Finish(t)
    /\ ev' = EvOf("streamEnd", t)
    /\ UNCHANGED <<lastImage, rest>>

\* the SDK call or stream throws: the producer's catch yields the message as
\* one more fragment and returns, and the handler's finally block runs
StreamThrow(t) ==
    LET text == t.text \o M_GeminiError
        shown == IF t.kind = "search" THEN SetLastOutput(lines, Str(text))
                 ELSE SetLastText(lines, Str(text))
        u == [t EXCEPT !.text = text, !.frags = Append(@, M_GeminiError)]
    IN
    /\ t.kind \in StreamKinds
    /\ lines' = Finalize(t.kind, shown, text)
    /\ isLoading' = FALSE
    /\ Finish(t)
    /\ ev' = [EvOf("streamEnd", u) EXCEPT !.ok = FALSE]
    /\ UNCHANGED <<lastImage, rest>>

\* generateCode resolves
CodeResponses ==
    { [explanation |-> e, code |-> c] : e \in {<<>>, <<"e", NL, "f">>}, c \in {<<>>, <<"c">>} }
    \cup { [explanation |-> M_GeminiError, code |-> <<>>] }

CodeDone(t, r) ==
    /\ t.kind = "code"
    /\ lines' = lines
         \o (IF r.explanation # <<>>
             THEN <<Line("OUTPUT", Arr(split(r.explanation, NL)))>> ELSE <<>>)
         \o (IF r.code # <<>> THEN <<Line("CODE", Str(r.code))>> ELSE <<>>)
    /\ isLoading' = FALSE
    /\ Finish(t)
    /\ ev' = [EvOf("codeDone", t) EXCEPT !.frags = <<r>>]
    /\ UNCHANGED <<lastImage, rest>>

\* generateImage resolves: the image bytes, or one of its messages
ImageResults == { Payload1, M_ImageNone, M_GeminiError }

\* base64Image.startsWith('Error:')
StartsWithError(r) == r \in { M_ApiKey, M_ImageNone, M_EditNone }

ImageDone(t, r) ==
    /\ t.kind = "image"
    /\ IF StartsWithError(r)
       THEN /\ lines' = Append(lines, ErrorLine(r))
            /\ UNCHANGED lastImage
       ELSE /\ lines' = Append(lines, Line("IMAGE", Arr(<<r, t.prompt>>)))
            /\ lastImage' = r
    /\ isLoading' = FALSE
    /\ Finish(t)
    /\ ev' = [EvOf("imageDone", t) EXCEPT !.frags = <<r>>]
    /\ UNCHANGED rest

\* what the model backend answers to an edit: the parts of the first candidate
\* (an image part, a text part, both or none), or the call throws
EditRaw ==
    { [image |-> i, text |-> x, throws |-> FALSE] :
          i \in {Null, Payload2}, x \in {Null, <<"t", NL, "u">>} }
    \cup { [image |-> Null, text |-> Null, throws |-> TRUE] }

\* editImage: the EditedImageResponse it resolves with
editImage(raw) ==
    IF raw.throws THEN [image |-> Null, text |-> M_GeminiError]
    ELSE IF Falsy(raw.image) /\ Falsy(raw.text) THEN [image |-> Null, text |-> M_EditNone]
    ELSE [image |-> raw.image, text |-> raw.text]

EditResponses == { editImage(raw) : raw \in EditRaw }

\* editImage resolves: case 'editimg' after the await
EditDone(t, raw) ==
    LET r == editImage(raw) IN
    /\ t.kind = "editimg"
    /\ lines' = lines
         \o (IF ~Falsy(r.text) THEN <<Line("OUTPUT", Arr(split(r.text, NL)))>> ELSE <<>>)
         \o (IF ~Falsy(r.image) THEN <<Line("IMAGE", Arr(<<r.image, t.prompt>>))>>
             ELSE IF Falsy(r.text) THEN <<ErrorLine(M_EditInvalid)>> ELSE <<>>)
    /\ lastImage' = IF ~Falsy(r.image) THEN r.image ELSE lastImage
    /\ isLoading' = FALSE
    /\ Finish(t)
    /\ ev' = [EvOf("editDone", t) EXCEPT !.frags = <<raw>>]
    /\ UNCHANGED rest

\* ---------------------------------------------------------------- video
\* what the backend may answer to the submission or to a status poll
VideoAnswers == {"pending", "doneWithVideo", "doneEmpty", "fails"}

\* the handler leaving the try block with no finally clause
VideoStop_NoFinally(t, line) ==
    /\ lines' = Append(lines, line)
    /\ UNCHANGED isLoading
    /\ Finish(t)

\* the handler leaves the try block: finally { setIsLoading(false) }
VideoStop(t, line) ==
    /\ lines' = Append(lines, line)
    /\ isLoading' = FALSE
    /\ Finish(t)

\* the code after the poll loop, downloading whether or not a link is there
VideoDone_AlwaysFetch(t, u, hasVideo) ==
    /\ lines' = Append(lines, SystemLine(M_VideoReady))
    /\ tasks' = Replace(t, [u EXCEPT !.pc = "fetch"])
    /\ UNCHANGED <<isLoading, inputValue>>

\* the code after the poll loop, for an operation that is done
VideoDone(t, u, hasVideo) ==
    IF hasVideo
    THEN /\ lines' = Append(lines, SystemLine(M_VideoReady))
         /\ tasks' = Replace(t, [u EXCEPT !.pc = "fetch"])
         /\ UNCHANGED <<isLoading, inputValue>>
    ELSE VideoStop(t, ErrorLine(M_VideoNone))

\* generateVideo resolves, the result taken for an operation whatever it is
VideoSubmitted_NoStringCheck(t, r) ==
    /\ t.kind = "video" /\ t.pc = "await"
    /\ CASE r \in {"fails", "pending"} ->
                /\ tasks' = Replace(t, [t EXCEPT !.pc = "wait"])
                /\ UNCHANGED <<lines, isLoading, inputValue>>
         [] OTHER -> VideoDone(t, t, r = "doneWithVideo")
    /\ ev' = [EvOf("videoSubmitted", t) EXCEPT !.cmd = <<r>>]
    /\ UNCHANGED <<lastImage, rest>>

\* generateVideo resolves: a failure string or an operation
VideoSubmitted(t, r) ==
    /\ t.kind = "video" /\ t.pc = "await"
    /\ CASE r = "fails" -> VideoStop(t, ErrorLine(M_GeminiError))
         [] r = "pending" -> /\ tasks' = Replace(t, [t EXCEPT !.pc = "wait"])
                             /\ UNCHANGED <<lines, isLoading, inputValue>>
         [] OTHER -> VideoDone(t, t, r = "doneWithVideo")
    /\ ev' = [EvOf("videoSubmitted", t) EXCEPT !.cmd = <<r>>]
    /\ UNCHANGED <<lastImage, rest>>

\* the poll loop with the message index wrapping around the set
VideoTick_Rotates(t) ==
    /\ t.kind = "video" /\ t.pc = "wait"
    /\ lines' = Append(lines, SystemLine(pollMessages[(t.n % Len(pollMessages)) + 1]))
    /\ tasks' = Replace(t, [t EXCEPT !.pc = "poll"])
    /\ ev' = EvOf("videoTick", t)
    /\ UNCHANGED <<isLoading, inputValue, lastImage, rest>>

\* the 10 s timer of the poll loop fires: the progress line, then the poll
VideoTick(t) ==
    /\ t.kind = "video" /\ t.pc = "wait"
    /\ lines' = Append(lines,
                       SystemLine(pollMessages[(IF t.n < Len(pollMessages) - 1
                                                THEN t.n ELSE Len(pollMessages) - 1) + 1]))
    /\ tasks' = Replace(t, [t EXCEPT !.pc = "poll"])
    /\ ev' = EvOf("videoTick", t)
    /\ UNCHANGED <<isLoading, inputValue, lastImage, rest>>

\* getVideosOperation resolves or throws
VideoPolled(t, r) ==
    LET u == [t EXCEPT !.n = @ + 1]
    IN
    /\ t.kind = "video" /\ t.pc = "poll"
    /\ r = "pending" => t.n + 1 < MaxPolls
    /\ CASE r = "fails" -> VideoStop(t, ErrorLine(<<"Error: <message>">>))
         [] r = "pending" -> /\ tasks' = Replace(t, [u EXCEPT !.pc = "wait"])
                             /\ UNCHANGED <<lines, isLoading, inputValue>>
         [] OTHER -> VideoDone(t, u, r = "doneWithVideo")
    /\ ev' = [EvOf("videoPolled", t) EXCEPT !.cmd = <<r>>]
    /\ UNCHANGED <<lastImage, rest>>

\* the download with a failure that leaves no line
VideoFetched_NoCatch(t, ok) ==
    /\ t.kind = "video" /\ t.pc = "fetch"
    /\ lines' = IF ok THEN Append(lines, Line("VIDEO", Arr(<< <<"<objectUrl>">>, t.prompt >>)))
                 ELSE lines
    /\ isLoading' = FALSE
    /\ Finish(t)
    /\ ev' = [EvOf("videoFetched", t) EXCEPT !.ok = ok]
    /\ UNCHANGED <<lastImage, rest>>

\* the download (fetch, blob, createObjectURL) resolves or throws
VideoFetched(t, ok) ==
    /\ t.kind = "video" /\ t.pc = "fetch"
    /\ VideoStop(t, IF ok THEN Line("VIDEO", Arr(<< <<"<objectUrl>">>, t.prompt >>))
                    ELSE ErrorLine(<<"Error: <message>">>))
    /\ ev' = [EvOf("videoFetched", t) EXCEPT !.ok = ok]
    /\ UNCHANGED <<lastImage, rest>>

\* ---------------------------------------------------------------- files
Files ==
    { [name |-> <<"a">>, type |-> "text/plain", content |-> <<"d">>],
      [name |-> <<"b">>, type |-> "", content |-> <<>>],
      [name |-> <<"c">>, type |-> "image/png", content |-> <<"d">>] }

\* a type test that lets every file through
IsTextType_Any(type) == TRUE

\* file.type.startsWith('text/'), over the types of Files
IsTextType(type) == type \in {"text/plain"}

\* handleFileChange: the user picks a file in the picker opened by upload
handleFileChange(f) ==
    /\ dialogOpen
    /\ dialogOpen' = FALSE
    /\ IF f.type # "" /\ ~IsTextType(f.type)
       THEN /\ lines' = Append(lines, ErrorLine(<<"Error: Cannot upload file of type ", f.type>>))
            /\ UNCHANGED reads
       ELSE \* reader.onload closes over the activeDoc of this render
            /\ reads' = reads \cup {[name |-> f.name, content |-> f.content, seen |-> activeDoc]}
            /\ UNCHANGED lines
    /\ ev' = Ev("fileChange", f.name, TRUE)
    /\ UNCHANGED <<uiVars, inputValue, isLoading, modeVars, isListening, docVars, lastImage,
                   svcVars, apiKey, tasks, recog, nsub>>

\* reader.onload
ReadLoaded(r) ==
    /\ r \in reads
    /\ reads' = reads \ {r}
    /\ documents' = DocPut(documents, r.name, r.content)
    /\ activeDoc' = IF Falsy(r.seen) THEN r.name ELSE activeDoc
    /\ lines' = lines \o <<SystemLine(<<"Successfully loaded ">> \o r.name),
                           SystemLine(M_UploadHint)>>
    /\ ev' = Ev("readLoaded", r.name, TRUE)
    /\ UNCHANGED <<uiVars, inputValue, isLoading, modeVars, isListening, lastImage,
                   svcVars, apiKey, tasks, dialogOpen, recog, nsub>>

\* reader.onerror
ReadFailed(r) ==
    /\ r \in reads
    /\ reads' = reads \ {r}
    /\ lines' = Append(lines, ErrorLine(<<"Error reading file: <error>">>))
    /\ ev' = Ev("readFailed", r.name, FALSE)
    /\ UNCHANGED <<uiVars, inputValue, isLoading, modeVars, isListening, docVars, lastImage,
                   svcVars, apiKey, tasks, dialogOpen, recog, nsub>>

\* ---------------------------------------------------------------- speech
\* recog is the recognition engine: "idle", "starting" (start() called, no
\* start event yet), "running" (after the start event), "closing" (an error or
\* the result was delivered; the end event is still to come)
speechFrame ==
    UNCHANGED <<uiVars, isLoading, modeVars, docVars, lastImage, svcVars, apiKey, tasks,
                reads, dialogOpen>>

\* handleToggleListening: the microphone button, disabled while isLoading
handleToggleListening ==
    /\ ~isLoading
    /\ IF isListening
       THEN \* recognition.stop(): the end event follows
            /\ UNCHANGED <<inputValue, recog, nsub>>
            /\ ev' = Ev("micStop", <<>>, TRUE)
       ELSE /\ inputValue' = <<>>
            /\ IF recog = "idle"
               THEN /\ nsub < MaxSubmits
                    /\ nsub' = nsub + 1
                    /\ recog' = "starting"
                    /\ ev' = Ev("micStart", <<>>, TRUE)
               ELSE \* recognition.start() throws InvalidStateError
                    /\ UNCHANGED <<recog, nsub>>
                    /\ ev' = Ev("micStart", <<>>, FALSE)
    /\ UNCHANGED <<lines, isListening>>
    /\ speechFrame

\* recognition.onstart
RecogStart ==
    /\ recog = "starting"
    /\ recog' = "running"
    /\ isListening' = TRUE
    /\ ev' = Ev("recogStart", <<>>, TRUE)
    /\ UNCHANGED <<lines, inputValue, nsub>>
    /\ speechFrame

\* recognition.onerror
RecogError(code) ==
    /\ recog \in {"starting", "running"}
    /\ recog' = "closing"
    /\ lines' = Append(lines, ErrorLine(IF code \in {"not-allowed", "service-not-allowed"}
                                        THEN M_MicDenied
                                        ELSE <<"Speech recognition error: ", code>>))
    /\ ev' = Ev("recogError", <<code>>, TRUE)
    /\ UNCHANGED <<inputValue, isListening, nsub>>
    /\ speechFrame

\* recognition.onresult
RecogResult(transcript) ==
    /\ recog = "running"
    /\ recog' = "closing"
    /\ inputValue' = transcript
    /\ ev' = Ev("recogResult", transcript, TRUE)
    /\ UNCHANGED <<lines, isListening, nsub>>
    /\ speechFrame

\* recognition.onend
RecogEnd ==
    /\ recog \in {"running", "closing"}
    /\ recog' = "idle"
    /\ isListening' = FALSE
    /\ ev' = Ev("recogEnd", <<>>, TRUE)
    /\ UNCHANGED <<lines, inputValue, nsub>>
    /\ speechFrame

\* ---------------------------------------------------------------- keys
\* handleInputChange: the input box reports its new content
handleInputChange(value) ==
    /\ inputValue' = value
    /\ suggestions' = <<>>
    /\ ev' = Ev("input", value, TRUE)
    /\ UNCHANGED <<lines, commandHistory, historyIndex, isLoading, modeVars, docVars,
                   lastImage, svcVars, envVars, tasks, dialogOpen, nsub>>

\* the chat-mode test of handleKeyDown, never true
inAnyChatMode_Never == FALSE

\* const inAnyChatMode = isChatMode || isChatDocMode
inAnyChatMode == isChatMode \/ isChatDocMode

\* ArrowUp that steps once past the oldest entry, showing nothing there
keyArrowUp_PastOldest ==
    IF historyIndex < Len(commandHistory)
    THEN /\ historyIndex' = historyIndex + 1
         /\ inputValue' = IF historyIndex + 2 <= Len(commandHistory)
                          THEN commandHistory[historyIndex + 2] ELSE <<>>
    ELSE UNCHANGED <<historyIndex, inputValue>>

\* ArrowUp outside the chat modes; commandHistory[k] of the source is
\* commandHistory[k + 1] here
keyArrowUp ==
    IF historyIndex < Len(commandHistory) - 1
    THEN /\ historyIndex' = historyIndex + 1
         /\ inputValue' = commandHistory[historyIndex + 2]
    ELSE UNCHANGED <<historyIndex, inputValue>>

\* ArrowDown that stops at the newest entry
keyArrowDown_StopsAtNewest ==
    IF historyIndex > 0
    THEN /\ historyIndex' = historyIndex - 1
         /\ inputValue' = commandHistory[historyIndex]
    ELSE UNCHANGED <<historyIndex, inputValue>>

\* ArrowDown outside the chat modes
keyArrowDown ==
    IF historyIndex > 0
    THEN /\ historyIndex' = historyIndex - 1
         /\ inputValue' = commandHistory[historyIndex]
    ELSE /\ historyIndex' = -1
         /\ inputValue' = <<>>

\* the commands equal to the typed word
tabMatches_Exact(currentInput) ==
    SelectSeq(COMMANDS, LAMBDA cmd : cmd = currentInput)

\* COMMANDS.filter(cmd => cmd.startsWith(currentInput))
tabMatches(currentInput) ==
    SelectSeq(COMMANDS, LAMBDA cmd : startsWith(cmd, currentInput))

\* Tab completing the first word and keeping what follows it
keyTab_KeepsArgs ==
    LET currentInput == split(trim(inputValue), SP)[1]
        matches == tabMatches(currentInput)
    IN
    IF Falsy(currentInput)
    THEN UNCHANGED <<inputValue, suggestions>>
    ELSE IF Len(matches) = 1
    THEN /\ inputValue' = matches[1] \o <<SP>> \o join(Tail(Tokens(inputValue)))
         /\ suggestions' = <<>>
    ELSE IF Len(matches) > 1
    THEN /\ suggestions' = matches
         /\ UNCHANGED inputValue
    ELSE UNCHANGED <<inputValue, suggestions>>

\* Tab outside the chat modes
keyTab ==
    LET currentInput == split(trim(inputValue), SP)[1]
        matches == tabMatches(currentInput)
    IN
    IF Falsy(currentInput)
    THEN UNCHANGED <<inputValue, suggestions>>
    ELSE IF Len(matches) = 1
    THEN /\ inputValue' = matches[1] \o <<SP>>
         /\ suggestions' = <<>>
    ELSE IF Len(matches) > 1
    THEN /\ suggestions' = matches
         /\ UNCHANGED inputValue
    ELSE UNCHANGED <<inputValue, suggestions>>

Keys == {"ArrowUp", "ArrowDown", "Tab"}

\* handleKeyDown
handleKeyDown(key) ==
    /\ IF key = "ArrowUp" /\ ~inAnyChatMode
       THEN keyArrowUp /\ UNCHANGED suggestions
       ELSE IF key = "ArrowDown" /\ ~inAnyChatMode
       THEN keyArrowDown /\ UNCHANGED suggestions
       ELSE IF key = "Tab" /\ ~inAnyChatMode
       THEN keyTab /\ UNCHANGED historyIndex
       ELSE UNCHANGED <<historyIndex, inputValue, suggestions>>
    /\ ev' = Ev("key", <<key>>, TRUE)
    /\ UNCHANGED <<lines, commandHistory, isLoading, modeVars, docVars, lastImage, svcVars,
                   envVars, tasks, dialogOpen, nsub>>

\* ---------------------------------------------------------------- the session
\* the user edits the input box, which is disabled while busy or listening
Type(s) ==
    /\ ~isLoading /\ ~isListening
    /\ handleInputChange(s)

\* a key pressed in the input box
Key(key) ==
    /\ ~isLoading /\ ~isListening
    /\ handleKeyDown(key)

\* Enter pressed on what the input box holds
EnterKey ==
    /\ ~isLoading /\ ~isListening
    /\ handleSubmit(inputValue)

\* the user types s (handleInputChange) and presses Enter
Enter(s) ==
    /\ ~isLoading /\ ~isListening
    /\ handleSubmit(s)

\* a submit event while the input box is disabled
EnterDisabled ==
    /\ isLoading \/ isListening
    /\ handleSubmit(inputValue)

Transcripts == { <<"e","x","i","t">> }

\* the file picker and the FileReader
FileEvents(F) ==
    \/ \E f \in F : handleFileChange(f)
    \/ \E r \in reads : ReadLoaded(r)
    \/ \E r \in reads : ReadFailed(r)

\* the microphone button and the recognition engine
SpeechEvents(codes) ==
    \/ handleToggleListening
    \/ RecogStart
    \/ \E code \in codes : RecogError(code)
    \/ \E tr \in Transcripts : RecogResult(tr)
    \/ RecogEnd

\* Spec: the mode controller. The user types the commands that change or
\* probe the mode, and talks in the chat modes.
Inputs ==
    { <<>>, <<SP>>,
      <<"e","x","i","t">>, <<SP,"E","x","i","T",SP>>,
      <<"c","h","a","t">>, <<"c","h","a","t","d","o","c">>,
      <<"c","h","a","t","d","o","c",SP,"x">>,
      <<"c","l","e","a","r">>, <<"d","o","c","s",SP,"c","l","e","a","r">>,
      <<"i","m","a","g","e",SP,"x">>, <<"u","p","l","o","a","d">> }

Next ==
    \/ \E s \in Inputs : Enter(s)
    \/ EnterDisabled
    \/ \E t \in tasks : StreamChunk(t, <<"a">>, <<>>)
    \/ \E t \in tasks : StreamEnd(t)
    \/ \E t \in tasks : StreamThrow(t)
    \/ \E t \in tasks, r \in ImageResults : ImageDone(t, r)
    \/ FileEvents({f \in Files : f.name = <<"a">>})
    \/ SpeechEvents({"not-allowed"})

Spec == Init /\ [][Next]_vars

\* SpecStream: the streaming response aggregator on plain-text streams. The
\* user asks and talks in both chat modes; the backend cuts its answers into
\* fragments.
StreamInputs ==
    { <<"a","s","k",SP,"q">>, <<"c","h","a","t">>, <<"q">>,
      <<"u","p","l","o","a","d">>, <<"c","h","a","t","d","o","c">> }

NextStream ==
    \/ \E s \in StreamInputs : Enter(s)
    \/ EnterDisabled
    \/ \E t \in tasks, c \in Frags : StreamChunk(t, c, <<>>)
    \/ \E t \in tasks : StreamEnd(t)
    \/ \E t \in tasks : StreamThrow(t)
    \/ FileEvents({f \in Files : f.name = <<"a">>})
    \/ SpeechEvents({"not-allowed"})

SpecStream == Init /\ [][NextStream]_vars

\* SpecSearch: the grounded-search stream, whose chunks may carry sources.
SearchInputs ==
    { <<"s","e","a","r","c","h",SP,"q">>, <<"s","e","a","r","c","h">>,
      <<"u","p","l","o","a","d">> }

NextSearch ==
    \/ \E s \in SearchInputs : Enter(s)
    \/ EnterDisabled
    \/ \E t \in tasks, c \in {<<"a">>, <<NL, "b">>}, srcs \in {<<>>} \cup SrcLists :
           StreamChunk(t, c, srcs)
    \/ \E t \in tasks : StreamEnd(t)
    \/ \E t \in tasks : StreamThrow(t)
    \/ FileEvents({f \in Files : f.name = <<"a">>})
    \/ SpeechEvents({"not-allowed"})

SpecSearch == Init /\ [][NextSearch]_vars

\* SpecBusy: every command that suspends on the backend, with every answer
\* the backend wrappers can give.
BusyInputs ==
    { <<"a","s","k",SP,"q">>, <<"s","e","a","r","c","h",SP,"q">>,
      <<"c","h","a","t">>, <<"q">>, <<"u","p","l","o","a","d">>,
      <<"c","h","a","t","d","o","c">>, <<"c","o","d","e",SP,"q">>,
      <<"i","m","a","g","e",SP,"x">>, <<"e","d","i","t","i","m","g",SP,"x">>,
      <<"v","i","d","e","o",SP,"v">> }

NextBusy ==
    \/ \E s \in BusyInputs : Enter(s)
    \/ EnterDisabled
    \/ \E t \in tasks, srcs \in {<<>>} \cup SrcLists : StreamChunk(t, <<"a">>, srcs)
    \/ \E t \in tasks : StreamEnd(t)
    \/ \E t \in tasks : StreamThrow(t)
    \/ \E t \in tasks, r \in CodeResponses : CodeDone(t, r)
    \/ \E t \in tasks, r \in ImageResults : ImageDone(t, r)
    \/ \E t \in tasks, raw \in EditRaw : EditDone(t, raw)
    \/ \E t \in tasks, r \in VideoAnswers : VideoSubmitted(t, r)
    \/ \E t \in tasks : VideoTick(t)
    \/ \E t \in tasks, r \in VideoAnswers : VideoPolled(t, r)
    \/ \E t \in tasks, ok \in BOOLEAN : VideoFetched(t, ok)
    \/ FileEvents({f \in Files : f.name = <<"a">>})

SpecBusy == Init /\ [][NextBusy]_vars

\* SpecMedia: the commands that await one backend call (code, image, editimg)
MediaInputs ==
    { <<"c","o","d","e",SP,"q">>, <<"i","m","a","g","e",SP,"x">>,
      <<"e","d","i","t","i","m","g",SP,"x">>, <<"e","d","i","t","i","m","g">> }

NextMedia ==
    \/ \E s \in MediaInputs : Enter(s)
    \/ EnterDisabled
    \/ \E t \in tasks, r \in CodeResponses : CodeDone(t, r)
    \/ \E t \in tasks, r \in ImageResults : ImageDone(t, r)
    \/ \E t \in tasks, raw \in EditRaw : EditDone(t, raw)

SpecMedia == Init /\ [][NextMedia]_vars

\* SpecVideo: the video command, its submission, poll loop and download
VideoInputs == { <<"v","i","d","e","o",SP,"v">>, <<"v","i","d","e","o">> }

NextVideo ==
    \/ \E s \in VideoInputs : Enter(s)
    \/ EnterDisabled
    \/ \E t \in tasks, r \in VideoAnswers : VideoSubmitted(t, r)
    \/ \E t \in tasks : VideoTick(t)
    \/ \E t \in tasks, r \in VideoAnswers : VideoPolled(t, r)
    \/ \E t \in tasks, ok \in BOOLEAN : VideoFetched(t, ok)

SpecVideo == Init /\ [][NextVideo]_vars

\* SpecDocs: the document table. The user uploads files of every kind,
\* selects and clears documents and opens a document chat, while the file
\* reads complete in any order.
DocInputs ==
    { <<"u","p","l","o","a","d">>,
      <<"d","o","c","s",SP,"s","e","l","e","c","t",SP,"a">>,
      <<"d","o","c","s",SP,"s","e","l","e","c","t",SP,"b">>,
      <<"d","o","c","s",SP,"s","e","l","e","c","t",SP,"z">>,
      <<"d","o","c","s",SP,"s","e","l","e","c","t",SP,"c","o","n","s","t","r","u","c","t","o","r">>,
      <<"d","o","c","s",SP,"c","l","e","a","r">>,
      <<"c","h","a","t","d","o","c">> }

NextDocs ==
    \/ \E s \in DocInputs : Enter(s)
    \/ EnterDisabled
    \/ \E t \in tasks : StreamEnd(t)
    \/ FileEvents(Files)

SpecDocs == Init /\ [][NextDocs]_vars

\* SpecKeys: the input box. The user types, completes with Tab, recalls with
\* the arrow keys and submits what the box holds.
KeyInputs ==
    { <<"a">>, <<"b">>, <<"c">>, <<SP,"d","a",SP,"x">>, <<"c","h","a","t">> }

NextKeys ==
    \/ \E s \in KeyInputs : Type(s)
    \/ \E key \in Keys : Key(key)
    \/ EnterKey
    \/ EnterDisabled
    \/ \E t \in tasks : StreamEnd(t)

SpecKeys == Init /\ [][NextKeys]_vars

\* SpecVoice: the input box with the microphone. The user types, presses
\* keys, dictates and submits.
VoiceInputs ==
    { <<"c">>, <<"c","h","a","t">>, <<"a","s",SP,"w","h","a","t",SP,"i","s",SP,"x">> }

NextVoice ==
    \/ \E s \in VoiceInputs : Type(s)
    \/ \E key \in Keys : Key(key)
    \/ EnterKey
    \/ EnterDisabled
    \/ \E t \in tasks : StreamEnd(t)
    \/ SpeechEvents({"not-allowed"})

SpecVoice == Init /\ [][NextVoice]_vars

\* SpecHistory: the command history. The user submits in every mode, also
\* while the terminal is busy or listening, and recalls with the arrow keys.
HistoryInputs ==
    { <<>>, <<SP,"x",SP>>, <<"c","h","a","t">>, <<"u","p","l","o","a","d">>,
      <<"c","h","a","t","d","o","c">> }

NextHistory ==
    \/ \E s \in HistoryInputs : Enter(s)
    \/ \E key \in {"ArrowUp", "ArrowDown"} : Key(key)
    \/ EnterDisabled
    \/ \E t \in tasks : StreamEnd(t)
    \/ FileEvents({f \in Files : f.name = <<"a">>})
    \/ SpeechEvents({"not-allowed"})

SpecHistory == Init /\ [][NextHistory]_vars

\* SpecChatKeys: the keys in every mode. The user uploads a document, enters
\* and talks in both chat modes, and presses the keys on what was typed.
ChatKeyInputs ==
    { <<"c","h","a","t">>, <<"u","p","l","o","a","d">>, <<"c","h","a","t","d","o","c">> }

NextChatKeys ==
    \/ \E s \in ChatKeyInputs : Type(s)
    \/ \E key \in Keys : Key(key)
    \/ EnterKey
    \/ EnterDisabled
    \/ \E t \in tasks : StreamEnd(t)
    \/ FileEvents({f \in Files : f.name = <<"a">>})

SpecChatKeys == Init /\ [][NextChatKeys]_vars

\* SpecUsage: the commands typed without what they need, with a document
\* uploaded and an image generated so that there is state to keep.
UsageInputs ==
    { <<"a","s","k">>, <<"s","e","a","r","c","h">>, <<"c","o","d","e">>,
      <<"I","m","a","g","e">>, <<"e","d","i","t","i","m","g">>, <<"v","i","d","e","o">>,
      <<"d","o","c","s">>, <<"d","o","c","s",SP,"L","I","S","T">>,
      <<"d","o","c","s",SP,"s","e","l","e","c","t">>,
      <<"i","m","a","g","e",SP,"x">>, <<"u","p","l","o","a","d">> }

NextUsage ==
    \/ \E s \in UsageInputs : Enter(s)
    \/ EnterDisabled
    \/ \E t \in tasks, r \in ImageResults : ImageDone(t, r)
    \/ FileEvents({f \in Files : f.name = <<"a">>})

SpecUsage == Init /\ [][NextUsage]_vars

\* SpecLive: every command that suspends, under the assumption that the
\* backend answers: each call, download and timer returns, each stream ends,
\* and a video operation that is polled again and again at last reports done
\* or its poll fails.
LiveInputs ==
    { <<"a","s","k",SP,"q">>, <<"c","h","a","t">>, <<"c","o","d","e",SP,"q">>,
      <<"i","m","a","g","e",SP,"x">>, <<"e","d","i","t","i","m","g",SP,"x">>,
      <<"v","i","d","e","o",SP,"v">> }

NextLive ==
    \/ \E s \in LiveInputs : Enter(s)
    \/ EnterDisabled
    \/ \E t \in tasks : StreamChunk(t, <<"a">>, <<>>)
    \/ \E t \in tasks : StreamEnd(t)
    \/ \E t \in tasks : StreamThrow(t)
    \/ \E t \in tasks, r \in CodeResponses : CodeDone(t, r)
    \/ \E t \in tasks, r \in ImageResults : ImageDone(t, r)
    \/ \E t \in tasks, raw \in EditRaw : EditDone(t, raw)
    \/ \E t \in tasks, r \in VideoAnswers : VideoSubmitted(t, r)
    \/ \E t \in tasks : VideoTick(t)
    \/ \E t \in tasks, r \in VideoAnswers : VideoPolled(t, r)
    \/ \E t \in tasks, ok \in BOOLEAN : VideoFetched(t, ok)

BackendAnswers ==
    /\ WF_vars(\E t \in tasks : StreamEnd(t) \/ StreamThrow(t))
    /\ WF_vars(\E t \in tasks, r \in CodeResponses : CodeDone(t, r))
    /\ WF_vars(\E t \in tasks, r \in ImageResults : ImageDone(t, r))
    /\ WF_vars(\E t \in tasks, raw \in EditRaw : EditDone(t, raw))
    /\ WF_vars(\E t \in tasks, r \in VideoAnswers : VideoSubmitted(t, r))
    /\ WF_vars(\E t \in tasks : VideoTick(t))
    /\ WF_vars(\E t \in tasks, r \in VideoAnswers : VideoPolled(t, r))
    /\ SF_vars(\E t \in tasks, r \in VideoAnswers \ {"pending"} : VideoPolled(t, r))
    /\ WF_vars(\E t \in tasks, ok \in BOOLEAN : VideoFetched(t, ok))

SpecLive == Init /\ [][NextLive]_vars /\ BackendAnswers

\* ---------------------------------------------------------------- properties
EXIT == <<"e","x","i","t">>
CHATDOC == <<"c","h","a","t","d","o","c">>
CHAT == <<"c","h","a","t">>

\* the step is a submission the handler accepted (neither busy nor listening)
Accepted == ev'.op = "submit" /\ ev'.ok
InChatModes == isChatMode \/ isChatDocMode
Appended == SubSeq(lines', Len(lines) + 1, Len(lines'))
AppendedTypes == { Appended[i].type : i \in 1..Len(Appended) }
NoBackendCall == tasks' = tasks /\ handles' = handles /\ chatSession' = chatSession
                 /\ chatDocSession' = chatDocSession
RECURSIVE Concat(_)
Concat(frags) == IF frags = <<>> THEN <<>> ELSE Head(frags) \o Concat(Tail(frags))

\* C1: the Chat flag and the DocChat flag are never both set.
C1_ModesExclusive == ~(isChatMode /\ isChatDocMode)

\* chat was submitted while in DocChat and the mode is still DocChat alone
C1_Witness ==
    /\ ev.op = "submit" /\ ev.ok /\ ev.cmd = CHAT
    /\ isChatDocMode /\ ~isChatMode

\* C2: submitting chatdoc while in Chat, or chat while in DocChat, leaves the
\* mode unchanged and appends an Error line; here with an API key configured.
C2_CrossModeIsError ==
    [][ (Accepted /\ apiKey /\ ( (isChatMode /\ ev'.cmd = CHATDOC)
                                 \/ (isChatDocMode /\ ev'.cmd = CHAT) ))
        => /\ isChatMode' = isChatMode /\ isChatDocMode' = isChatDocMode
           /\ "ERROR" \in AppendedTypes ]_vars

\* C3: in Chat or DocChat an input that is exit after trimming, in any letter
\* case, returns to Normal, appends after the echoed input exactly one System
\* line saying the mode was left, makes no backend call and leaves the busy
\* flag clear.
C3_ExitLeavesMode ==
    [][ (Accepted /\ InChatModes /\ toLowerCase(ev'.cmd) = EXIT)
        => /\ ~isChatMode' /\ ~isChatDocMode'
           /\ Len(Appended) = 2
           /\ Appended[1].text = Str(ev'.cmd)
           /\ Appended[2] = Line("SYSTEM", Str(IF isChatMode THEN M_ExitedChat
                                                ELSE M_ExitedDoc))
           /\ NoBackendCall
           /\ ~isLoading /\ ~isLoading' ]_vars

\* the input ExiT with blanks around it has just ended the document chat
C3_Witness ==
    /\ ev.op = "submit" /\ ev.ok /\ ev.cmd = <<"E","x","i","T">>
    /\ ~isChatMode /\ ~isChatDocMode
    /\ lines[Len(lines)] = Line("SYSTEM", Str(M_ExitedDoc))

\* C4: in Chat or DocChat a non-empty input other than exit is forwarded as a
\* message to the streaming handler of that mode, is never dispatched as a
\* command, and leaves the mode, the documents, the active document, the last
\* image and the command history unchanged.
C4_ChatInputIsMessage ==
    [][ (Accepted /\ InChatModes /\ ev'.cmd # <<>> /\ toLowerCase(ev'.cmd) # EXIT)
        => /\ UNCHANGED <<isChatMode, isChatDocMode, documents, activeDoc,
                          lastImage, commandHistory, historyIndex>>
           /\ Len(Appended) = 2
           /\ Appended[1].text = Str(ev'.cmd)
           /\ Appended[2].type = "OUTPUT"
           /\ LET kind == IF isChatMode THEN "chat" ELSE "chatdoc"
                  open == IF isChatMode THEN chatSession # 0 ELSE chatDocSession.id # 0
              IN IF open
                 THEN /\ isLoading'
                      /\ \E t \in tasks' : /\ tasks' = tasks \cup {t}
                                           /\ t \notin tasks
                                           /\ t.kind = kind /\ t.prompt = ev'.cmd
                 ELSE tasks' = tasks /\ ~isLoading' ]_vars

\* in DocChat the input docs clear went to the document chat as a message and
\* the documents are still there
C4_Witness ==
    /\ ev.op = "submit" /\ ev.ok /\ ev.cmd = <<"d","o","c","s"," ","c","l","e","a","r">>
    /\ isChatDocMode /\ documents # <<>> /\ activeDoc # Null
    /\ \E t \in tasks : t.kind = "chatdoc" /\ t.prompt = ev.cmd

\* C5: in Chat or DocChat an input that is empty or only white space appends
\* exactly one blank prompt line, makes no backend call, does not set the busy
\* flag, appends no Output line and leaves the mode unchanged.
C5_EmptyChatInput ==
    [][ (Accepted /\ InChatModes /\ ev'.cmd = <<>>)
        => /\ Len(Appended) = 1
           /\ Appended[1].text = Str(<<>>)
           /\ Appended[1].type # "OUTPUT"
           /\ NoBackendCall
           /\ ~isLoading'
           /\ UNCHANGED <<isChatMode, isChatDocMode>> ]_vars

\* one blank was submitted in Chat: a blank prompt line is the last line
C5_Witness ==
    /\ ev.op = "submit" /\ ev.ok /\ ev.cmd = <<>>
    /\ inputValue = <<SP>>
    /\ isChatMode
    /\ lines[Len(lines)] = Line("SYSTEM", Str(<<>>))

\* C6: chatdoc enters DocChat exactly when the mode is not Chat, a document is
\* active and no argument was given; otherwise it appends exactly one Error
\* line, creates no handle and the mode stays Normal.
C6_ChatdocEntry ==
    [][ (Accepted /\ ~isChatDocMode /\ Tokens(ev'.cmd) # <<>>
         /\ toLowerCase(Head(Tokens(ev'.cmd))) = CHATDOC)
        => LET args == Tail(Tokens(ev'.cmd))
               allowed == ~isChatMode /\ ~Falsy(activeDoc) /\ args = <<>>
           IN  /\ (isChatDocMode' /\ ~isChatMode') <=> allowed
               /\ ~allowed /\ ~isChatMode =>
                     /\ Len(Appended) = 2
                     /\ Appended[2].type = "ERROR"
                     /\ handles' = handles
                     /\ chatDocSession' = chatDocSession
                     /\ ~isChatMode' /\ ~isChatDocMode' ]_vars

\* chatdoc with no argument and an active document has just entered DocChat
C6_Witness ==
    /\ ev.op = "submit" /\ ev.ok /\ ev.cmd = CHATDOC
    /\ isChatDocMode /\ ~isChatMode /\ activeDoc # Null
    /\ lines[Len(lines)].type = "SYSTEM"
    /\ chatDocSession.id # 0

\* C7: while the busy flag is set a submission is dropped: it appends no line,
\* records no history, changes no mode and makes no backend call, so at most
\* one request is in flight and exit cannot interrupt it.
C7_BusyDrops ==
    [][ /\ Cardinality(tasks') <= 1
        /\ (ev'.op = "submit" /\ isLoading)
           => /\ ~ev'.ok
              /\ NoBackendCall
              /\ UNCHANGED <<lines, commandHistory, historyIndex, isChatMode,
                             isChatDocMode, isLoading, documents, activeDoc,
                             lastImage>> ]_vars

\* exit was submitted in Chat while a chat message was being answered: the
\* request is still in flight and the mode is still Chat
C7_Witness ==
    /\ ev.op = "submit" /\ ~ev.ok /\ ev.cmd = EXIT
    /\ isLoading /\ isChatMode
    /\ \E t \in tasks : t.kind = "chat"

\* C8: the busy flag is clear whenever no handler is in progress, on every
\* path (success, empty result, error value, exception), and set only while
\* one is.
C8_BusyIffInProgress == isLoading <=> (tasks # {})

\* a poll of the video operation threw: the handler is over, busy is clear
C8_Witness ==
    /\ ev.op = "videoPolled" /\ ev.cmd = <<"fails">>
    /\ ~isLoading /\ tasks = {}
    /\ lines[Len(lines)].type = "ERROR"

\* C9: when a plain-text stream (ask, chat, document chat) has ended, the
\* content of its Output line is the concatenation of its fragments split on
\* line breaks.
C9_StreamedText ==
    (ev.op = "streamEnd" /\ ev.kind \in {"ask", "chat", "chatdoc"})
    => lines[ev.own] = Line("OUTPUT", Arr(split(Concat(ev.frags), NL)))

\* C10: when a search stream has ended, the content of its Output line is the
\* concatenation of its text fragments split on line breaks, wherever the
\* sources fragments fell; here for a search that is the only thing the user
\* did in the session.
C10_SearchText ==
    (ev.op = "streamEnd" /\ ev.kind = "search" /\ nsub = 1)
    => lines[ev.own] = Line("OUTPUT", Arr(split(Concat(ev.frags), NL)))

EDITIMG == <<"e","d","i","t","i","m","g">>
IMAGE == <<"i","m","a","g","e">>
VIDEO == <<"v","i","d","e","o">>
FirstToken(commandStr) ==
    IF Tokens(commandStr) = <<>> THEN <<>> ELSE toLowerCase(Head(Tokens(commandStr)))
Min(a, b) == IF a <= b THEN a ELSE b
IsProgress(l) == l.type = "SYSTEM" /\ \E k \in 1..Len(pollMessages) : l.text = Str(pollMessages[k])
\* the progress lines of ls that come after index from
ProgressAfter(ls, from) == SelectSeq(SubSeq(ls, from + 1, Len(ls)), IsProgress)
FetchFailure == <<"Error: <message>">>

\* C11: a streaming handler appends one empty Output line before the first
\* fragment; after each consumed text chunk that line holds the concatenation
\* of the chunks consumed so far; with no fragment at all the line is still
\* there and is finalized to the split of the empty string. Stated for the
\* plain-text streams (ask, chat, document chat).
C11_OutputLineFollowsChunks ==
    /\ \A t \in tasks : t.kind \in {"ask", "chat", "chatdoc"}
          => lines[t.own] = Line("OUTPUT", Str(Concat(t.frags)))
    /\ (ev.op = "streamEnd" /\ ev.kind \in {"ask", "chat", "chatdoc"} /\ ev.frags = <<>>)
          => lines[ev.own] = Line("OUTPUT", Arr(<< <<>> >>))

\* C12: in a search, each sources fragment freezes the text Output line to the
\* running buffer split on line breaks and appends one Sources line after it;
\* here for a search that is the only thing the user did in the session.
C12_SourcesFreezeText ==
    (ev.op = "sources" /\ nsub = 1)
    => /\ lines[ev.own] = Line("OUTPUT", Arr(split(Concat(ev.frags), NL)))
       /\ lines[Len(lines)].type = "SOURCES"

\* C13: every failure of a backend call ends with an Error line carrying the
\* failure message in the line buffer; here for a stream whose backend call
\* threw.
C13_FailureIsErrorLine ==
    (ev.op = "streamEnd" /\ ~ev.ok)
    => \E i \in 1..Len(lines) : lines[i] = ErrorLine(M_GeminiError)

\* C14: image appends an Image line and sets the last image only when the
\* backend returned an image payload; when the generation fails for any reason
\* it appends an Error line, no Image line, and leaves the last image as it
\* was.
C14_ImageOnlyOnPayload ==
    [][ ev'.op = "imageDone"
        => IF ev'.frags = <<Payload1>>
           THEN /\ Appended = <<Line("IMAGE", Arr(<<Payload1, ev'.cmd>>))>>
                /\ lastImage' = Payload1
           ELSE /\ Len(Appended) = 1 /\ Appended[1].type = "ERROR"
                /\ lastImage' = lastImage ]_vars

\* no image command among the commands submitted so far
NoImageIssued == \A i \in 1..Len(commandHistory) : FirstToken(commandHistory[i]) # IMAGE

\* C15: editimg with a prompt, when no image command was issued earlier in the
\* session, appends an Error line, does not call the edit backend, does not set
\* the busy flag and leaves the last image unset.
C15_EditNeedsImage ==
    [][ (Accepted /\ ~InChatModes /\ FirstToken(ev'.cmd) = EDITIMG /\ NoImageIssued)
        => /\ Len(Appended) = 2
           /\ Appended[2].type = "ERROR"
           /\ NoBackendCall
           /\ ~isLoading'
           /\ lastImage = Null /\ lastImage' = Null ]_vars

\* editimg x was submitted with no image ever requested: the Error line is last
C15_Witness ==
    /\ ev.op = "submit" /\ ev.ok /\ ev.cmd = EDITIMG \o <<SP, "x">>
    /\ lines[Len(lines)] = ErrorLine(M_NoImage)
    /\ lastImage = Null /\ tasks = {} /\ ~isLoading

\* C16: editimg with a remembered image: returned text is appended as an Output
\* line; a returned image as an Image line after it, and becomes the last
\* image; when neither is returned exactly one Error line is appended; the last
\* image changes only when an image is returned. Stated for the answers of the
\* backend that are not exceptions.
C16_EditResult ==
    [][ (ev'.op = "editDone" /\ ~ev'.frags[1].throws)
        => LET raw == ev'.frags[1]
               textLines == IF Falsy(raw.text) THEN <<>>
                            ELSE <<Line("OUTPUT", Arr(split(raw.text, NL)))>>
               imageLines == IF Falsy(raw.image) THEN <<>>
                             ELSE <<Line("IMAGE", Arr(<<raw.image, ev'.cmd>>))>>
           IN  /\ IF Falsy(raw.text) /\ Falsy(raw.image)
                  THEN Len(Appended) = 1 /\ Appended[1].type = "ERROR"
                  ELSE Appended = textLines \o imageLines
               /\ lastImage' = IF Falsy(raw.image) THEN lastImage ELSE raw.image ]_vars

\* C17: when the video submission returns a failure string, exactly one Error
\* line carrying it is appended, no wait, progress line or poll happens for the
\* request, and the busy flag is cleared.
C17_VideoSubmitFails ==
    [][ /\ (ev'.op = "videoSubmitted" /\ ev'.cmd = <<"fails">>)
           => /\ Appended = <<ErrorLine(M_GeminiError)>>
              /\ ~isLoading' /\ tasks' = {}
        /\ (Accepted /\ ~InChatModes /\ FirstToken(ev'.cmd) = VIDEO
            /\ Len(Tokens(ev'.cmd)) > 1 /\ ~apiKey)
           => /\ Len(Appended) = 4
              /\ Appended[4] = ErrorLine(M_ApiKey)
              /\ \A i \in 1..3 : Appended[i].type # "ERROR" /\ ~IsProgress(Appended[i])
              /\ ~isLoading' /\ tasks' = {} ]_vars

\* the submission of a video failed: one Error line, no request left, not busy
C17_Witness ==
    /\ ev.op = "videoSubmitted" /\ ev.cmd = <<"fails">>
    /\ lines[Len(lines)] = ErrorLine(M_GeminiError)
    /\ lines[Len(lines) - 1] = SystemLine(M_VideoWait)
    /\ ~isLoading /\ tasks = {}

\* C18: the k-th progress line of a video request is appended after the k-th
\* wait and before the k-th poll and carries message min(k-1, 2) of the three;
\* there are as many progress lines as polls, none when the operation is done
\* on submission.
C18_ProgressMessages ==
    [][ /\ \A t \in tasks : (ev'.op = "videoTick" /\ t.kind = "video")
              => /\ t.pc = "wait"
                 /\ Appended = <<SystemLine(pollMessages[Min(t.n, 2) + 1])>>
                 /\ \E u \in tasks' : u.pc = "poll" /\ u.n = t.n
        /\ ev'.op # "videoTick" => \A i \in 1..Len(Appended) : ~IsProgress(Appended[i])
        /\ \A t \in tasks' : t.kind = "video"
              => LET P == ProgressAfter(lines', t.own)
                 IN  /\ Len(P) = t.n + (IF t.pc = "poll" THEN 1 ELSE 0)
                     /\ \A k \in 1..Len(P) : P[k] = SystemLine(pollMessages[Min(k - 1, 2) + 1]) ]_vars

\* the fourth progress line of a request is out and it is the third message
C18_Witness ==
    \E t \in tasks : /\ t.kind = "video" /\ t.pc = "poll" /\ t.n = 3
                     /\ Len(ProgressAfter(lines, t.own)) = 4
                     /\ lines[Len(lines)] = SystemLine(pollMessages[3])

\* C19: when a video operation reports done: with no media reference exactly
\* one Error line is appended, no Video line, and busy clears; with a media
\* reference and a successful download exactly one Video line is appended, no
\* Error line, and busy clears; no poll happens after done.
C19_VideoDone ==
    [][ /\ (ev'.op \in {"videoPolled", "videoSubmitted"} /\ ev'.cmd = <<"doneEmpty">>)
           => /\ Appended = <<ErrorLine(M_VideoNone)>>
              /\ ~isLoading' /\ tasks' = {}
        /\ (ev'.op \in {"videoPolled", "videoSubmitted"} /\ ev'.cmd = <<"doneWithVideo">>)
           => /\ AppendedTypes = {"SYSTEM"}
              /\ \A u \in tasks' : u.pc = "fetch"
        /\ (ev'.op = "videoFetched" /\ ev'.ok)
           => /\ Appended = <<Line("VIDEO", Arr(<< <<"<objectUrl>">>, ev'.cmd >>))>>
              /\ ~isLoading' /\ tasks' = {}
        /\ (\E t \in tasks : t.pc = "fetch") => ev'.op \notin {"videoTick", "videoPolled"} ]_vars

\* a polled request ended with its Video line and the terminal is not busy
C19_Witness ==
    /\ ev.op = "videoFetched" /\ ev.ok
    /\ lines[Len(lines)].type = "VIDEO"
    /\ Len(ProgressAfter(lines, ev.own)) > 0
    /\ \A i \in (ev.own + 1)..Len(lines) : lines[i].type # "ERROR"
    /\ ~isLoading /\ tasks = {}

\* C20: if a status poll or the download of a video request throws, exactly one
\* Error line with the failure message is appended, the loop stops, no Video
\* line is appended and the busy flag is cleared.
C20_VideoThrows ==
    [][ ((ev'.op = "videoPolled" /\ ev'.cmd = <<"fails">>)
         \/ (ev'.op = "videoFetched" /\ ~ev'.ok))
        => /\ Appended = <<ErrorLine(FetchFailure)>>
           /\ ~isLoading' /\ tasks' = {} ]_vars

\* the download of a generated video failed: the Error line is last, no Video
\* line came for the request and the terminal is not busy
C20_Witness ==
    /\ ev.op = "videoFetched" /\ ~ev.ok
    /\ lines[Len(lines)] = ErrorLine(FetchFailure)
    /\ \A i \in (ev.own + 1)..Len(lines) : lines[i].type # "VIDEO"
    /\ ~isLoading /\ tasks = {}

DOCS == <<"d","o","c","s">>
SELECT == <<"s","e","l","e","c","t">>
DOCS_CLEAR == <<"d","o","c","s",SP,"c","l","e","a","r">>
\* the step is an accepted Normal-mode docs select with a file name
SelectStep ==
    /\ Accepted /\ ~InChatModes
    /\ Len(Tokens(ev'.cmd)) >= 3
    /\ FirstToken(ev'.cmd) = DOCS
    /\ Tokens(ev'.cmd)[2] = SELECT
SelectedName == Tokens(ev'.cmd)[3]
FileOf(name) == CHOOSE f \in Files : f.name = name
TextLike(type) == type = "text/plain"

\* C21: docs select with a name that is not a key of the document table
\* appends an Error line and leaves the active document and the table as they
\* were.
C21_SelectAbsent ==
    [][ (SelectStep /\ ~HasKey(documents, SelectedName))
        => /\ "ERROR" \in AppendedTypes
           /\ activeDoc' = activeDoc
           /\ documents' = documents ]_vars

\* C22: docs select with a name that is a key of the document table, whatever
\* the stored content, makes that name the active document and appends a
\* System confirmation line and no Error line.
C22_SelectKey ==
    [][ (SelectStep /\ HasKey(documents, SelectedName))
        => /\ activeDoc' = SelectedName
           /\ "SYSTEM" \in AppendedTypes
           /\ "ERROR" \notin AppendedTypes ]_vars

\* C23: a file read that completes while the document table is empty makes
\* its document the active one, and a file read that completes while another
\* document is active leaves the active document as it was, in whatever order
\* the pending reads complete and however they interleave with docs select
\* and docs clear.
C23_ReadActivation ==
    [][ ev'.op = "readLoaded"
        => /\ documents = <<>> => activeDoc' = ev'.cmd
           /\ (~Falsy(activeDoc) /\ activeDoc # ev'.cmd) => activeDoc' = activeDoc ]_vars

C25_NonTextRejected ==
    [][ /\ (ev'.op = "fileChange"
            /\ FileOf(ev'.cmd).type # "" /\ ~TextLike(FileOf(ev'.cmd).type))
           => /\ Len(Appended) = 1 /\ Appended[1].type = "ERROR"
              /\ reads' = reads
              /\ UNCHANGED docVars
        /\ \A k \in 1..Len(documents') :
              LET type == FileOf(documents'[k].name).type
              IN  type = "" \/ TextLike(type) ]_vars

C25_Witness ==
    /\ ev.op = "fileChange" /\ ev.cmd = <<"c">>
    /\ lines[Len(lines)].type = "ERROR"
    /\ \E r \in reads : r.name = <<"a">>

ARROW_UP == <<"ArrowUp">>
ARROW_DOWN == <<"ArrowDown">>
TAB == <<"Tab">>
\* the step is a key press in the input box
KeyStep(k) == ev'.op = "key" /\ ev'.cmd = k
\* the registry names that have t as a prefix, in registry order
Prefixed(t) ==
    SelectSeq(COMMANDS, LAMBDA c : Len(t) <= Len(c) /\ \A k \in 1..Len(t) : c[k] = t[k])

\* C26: Tab in Normal mode, with t the non-empty first token of the input and
\* M the registry names that have t as a prefix: M empty leaves the input and
\* the suggestion list unchanged; one name makes the input that name followed
\* by one space and empties the suggestion list; several names make the
\* suggestion list exactly M and leave the input unchanged.
C26_TabCompletion ==
    [][ (KeyStep(TAB) /\ ~InChatModes /\ Tokens(inputValue) # <<>>)
        => LET M == Prefixed(Head(Tokens(inputValue)))
           IN  IF Len(M) = 0
               THEN UNCHANGED <<inputValue, suggestions>>
               ELSE IF Len(M) = 1
               THEN inputValue' = M[1] \o <<SP>> /\ suggestions' = <<>>
               ELSE suggestions' = M /\ inputValue' = inputValue ]_vars

\* Tab has completed the first token of an input that had blanks and an
\* argument
C26_Witness ==
    /\ ev.op = "key" /\ ev.cmd = TAB
    /\ inputValue = <<"d","a","t","e",SP>>
    /\ suggestions = <<>>
    /\ Len(commandHistory) > 0

\* C27: when a suggestion list is shown, every change of the input value (by
\* typing, by recall with Up or Down, by a speech-recognition result) and
\* every submission leaves the suggestion list empty.
C27_SuggestionsCleared ==
    [][ (suggestions # <<>> /\ (inputValue' # inputValue \/ ev'.op = "submit"))
        => suggestions' = <<>> ]_vars

\* C28: in Normal mode with history h (most recent first) and cursor i, Up
\* moves the cursor to i + 1 and shows that entry when i is below the index of
\* the oldest entry, and otherwise changes nothing; Down moves the cursor to
\* i - 1 and shows that entry when i > 0, and otherwise sets the cursor to -1
\* and the input to empty. After submitting a, b, c, three Up and one Down
\* show b. The entry of index k is commandHistory[k + 1].
C28_Recall ==
    [][ /\ (KeyStep(ARROW_UP) /\ ~InChatModes)
           => IF historyIndex < Len(commandHistory) - 1
              THEN /\ historyIndex' = historyIndex + 1
                   /\ inputValue' = commandHistory[historyIndex' + 1]
              ELSE UNCHANGED <<historyIndex, inputValue, suggestions>>
        /\ (KeyStep(ARROW_DOWN) /\ ~InChatModes)
           => IF historyIndex > 0
              THEN /\ historyIndex' = historyIndex - 1
                   /\ inputValue' = commandHistory[historyIndex' + 1]
              ELSE /\ historyIndex' = -1
                   /\ inputValue' = <<>>
        /\ (/\ KeyStep(ARROW_DOWN) /\ historyIndex = 2
            /\ commandHistory = << <<"c">>, <<"b">>, <<"a">> >>)
           => inputValue' = <<"b">> ]_vars

\* a, b, c were submitted, Up went to the oldest entry and Down came back by
\* one
C28_Witness ==
    /\ ev.op = "key" /\ ev.cmd = ARROW_DOWN
    /\ commandHistory = << <<"c">>, <<"b">>, <<"a">> >>
    /\ historyIndex = 1
    /\ inputValue = <<"b">>

\* C29: the command history changes only when a non-empty input is submitted
\* in Normal mode: the trimmed input is put at the front and the recall cursor
\* is reset to -1. Empty submissions, inputs submitted in a chat mode,
\* submissions dropped while busy or listening, and every other event leave
\* the history unchanged.
C29_HistoryGrows ==
    [][ IF Accepted /\ ~InChatModes /\ ev'.cmd # <<>>
        THEN /\ commandHistory' = <<ev'.cmd>> \o commandHistory
             /\ Head(ev'.cmd) # SP /\ ev'.cmd[Len(ev'.cmd)] # SP
             /\ historyIndex' = -1
        ELSE commandHistory' = commandHistory ]_vars

\* a third command was submitted and recorded without its blanks
C29_Witness ==
    /\ ev.op = "submit" /\ ev.ok /\ ev.cmd = <<"x">>
    /\ Len(commandHistory) = 3
    /\ commandHistory[1] = <<"x">>
    /\ historyIndex = -1
    /\ inputValue = <<>>

\* C30: while the session is in Chat or DocChat, the Up, Down and Tab keys
\* leave the input value, the recall cursor and the suggestion list unchanged.
C30_KeysOffInChat ==
    [][ (ev'.op = "key" /\ InChatModes)
        => UNCHANGED <<inputValue, historyIndex, suggestions>> ]_vars

\* Tab was pressed in a document chat on an input that names two commands
C30_Witness ==
    /\ ev.op = "key" /\ ev.cmd = TAB
    /\ isChatDocMode
    /\ inputValue = CHAT
    /\ Len(commandHistory) >= 2

\* whether a lower-cased word is a name of the command registry
IsCommand(word) == \E k \in 1..Len(COMMANDS) : COMMANDS[k] = word

\* C31: in Normal mode a non-empty input whose first token, compared without
\* regard to letter case, is not a registry command appends after the echoed
\* command exactly one Error line, command not found: followed by the token as
\* typed; it makes no backend call and leaves the mode, the documents, the
\* active document, the last image and the busy flag unchanged.
C31_NotFound ==
    [][ (Accepted /\ ~InChatModes /\ ev'.cmd # <<>> /\ ~IsCommand(FirstToken(ev'.cmd)))
        => /\ Appended = << Line("COMMAND", Str(ev'.cmd)),
                            ErrorLine(<<"command not found: ">> \o Head(Tokens(ev'.cmd))) >>
           /\ NoBackendCall
           /\ UNCHANGED <<modeVars, docVars, lastImage, isLoading>> ]_vars

\* a word in mixed case was rejected with a document and an image in place
C31_Witness ==
    /\ ev.op = "submit" /\ ev.ok /\ ev.cmd = <<"E","x","i","T">>
    /\ lines[Len(lines)] = ErrorLine(<<"command not found: ", "E","x","i","T">>)
    /\ ~InChatModes
    /\ documents # <<>>

\* the commands that need an argument, and the sub-commands of docs
NeedArg ==
    { <<"a","s","k">>, <<"s","e","a","r","c","h">>, <<"c","o","d","e">>, IMAGE, EDITIMG,
      VIDEO }
SubCommands == { <<"l","i","s","t">>, SELECT, <<"c","l","e","a","r">> }
\* the input lacks what its command needs
LacksArgument(cmd) ==
    LET toks == Tokens(cmd) IN
    \/ FirstToken(cmd) \in NeedArg /\ Len(toks) = 1
    \/ FirstToken(cmd) = DOCS /\ (Len(toks) = 1 \/ toks[2] \notin SubCommands)
    \/ FirstToken(cmd) = DOCS /\ Len(toks) = 2 /\ toks[2] = SELECT
\* the usage message of each case, as printed
UsageText(cmd) ==
    LET c == FirstToken(cmd) IN
    CASE c = <<"a","s","k">> -> <<"Usage: ", "ask <your question>">>
      [] c = <<"s","e","a","r","c","h">> -> <<"Usage: ", "search <your question>">>
      [] c = <<"c","o","d","e">> -> <<"Usage: ", "code <your coding question>">>
      [] c = IMAGE -> <<"Usage: ", "image <a description of the image>">>
      [] c = EDITIMG -> <<"Usage: ", "editimg <your edit instruction>">>
      [] c = VIDEO -> <<"Usage: ", "video <a description of the video>">>
      [] OTHER -> IF Len(Tokens(cmd)) = 2 /\ Tokens(cmd)[2] = SELECT
                  THEN <<"Usage: ", "docs select <filename>">>
                  ELSE <<"Usage: docs <list|select|clear>">>

\* C32: ask, search, code, image, editimg and video with no argument, docs
\* without a valid sub-command and docs select without a name append exactly
\* one Error line that begins with Usage:, make no backend call, do not set
\* the busy flag and leave the mode, the documents, the active document and
\* the last image unchanged.
C32_UsageErrors ==
    [][ (Accepted /\ ~InChatModes /\ LacksArgument(ev'.cmd))
        => /\ Appended = << Line("COMMAND", Str(ev'.cmd)), ErrorLine(UsageText(ev'.cmd)) >>
           /\ NoBackendCall
           /\ ~isLoading'
           /\ UNCHANGED <<modeVars, docVars, lastImage>> ]_vars

\* editimg was typed without an instruction while an image and a document
\* were there
C32_Witness ==
    /\ ev.op = "submit" /\ ev.ok /\ ev.cmd = EDITIMG
    /\ lines[Len(lines)] = ErrorLine(<<"Usage: ", "editimg <your edit instruction>">>)
    /\ lastImage = Payload1
    /\ documents # <<>>

\* C33: speech capture and command execution exclude each other: the
\* listening flag and the busy flag are never both set, however the microphone
\* toggle, the recognition events and the submissions interleave; and a
\* submission made while listening is dropped: it appends no line and
\* dispatches nothing.
C33_ListeningExcludesBusy ==
    [][ /\ ~(isListening' /\ isLoading')
        /\ (ev'.op = "submit" /\ isListening)
           => /\ ~ev'.ok
              /\ lines' = lines
              /\ NoBackendCall
              /\ UNCHANGED <<modeVars, docVars, lastImage, commandHistory>> ]_vars

\* the content stored under a key of the document table
ContentOf(d, name) == d[CHOOSE k \in 1..Len(d) : d[k].name = name].content

\* C34: with backend credentials, every chat command accepted in Normal mode
\* creates a new plain-chat handle, and every successful chatdoc creates a new
\* document-chat handle primed with the content the active document has at
\* that moment; a message forwarded in Chat or DocChat is sent on the handle
\* of the most recent such command: the handles change by these commands
\* only, and the message goes out on the current one.
C34_FreshHandles ==
    [][ apiKey
        => /\ (Accepted /\ ~InChatModes /\ FirstToken(ev'.cmd) = CHAT)
              => chatSession' = handles + 1 /\ handles' = handles + 1
           /\ (Accepted /\ ~InChatModes /\ isChatDocMode')
              => /\ chatDocSession'.id = handles + 1 /\ handles' = handles + 1
                 /\ HasKey(documents, activeDoc)
                 /\ chatDocSession'.doc = ContentOf(documents, activeDoc)
           /\ chatSession' # chatSession
              => Accepted /\ ~InChatModes /\ FirstToken(ev'.cmd) = CHAT
           /\ chatDocSession' # chatDocSession
              => Accepted /\ ~InChatModes /\ FirstToken(ev'.cmd) = CHATDOC
           /\ \A t \in tasks' \ tasks :
                 /\ t.kind = "chat" => t.handle = chatSession' /\ t.handle # 0
                 /\ t.kind = "chatdoc" => t.handle = chatDocSession'.id /\ t.handle # 0 ]_vars

\* C35: while a streaming response is in flight, every chunk update and the
\* finalization change only the Output line the stream appended at its start:
\* no other line of the buffer, such as a line appended mid-stream by a file
\* read, a rejected file or a recognition error, has its content overwritten;
\* and when the stream ends its own Output line is finalized.
C35_OnlyOwnLine ==
    [][ ev'.op \in {"chunk", "sources", "streamEnd"}
        => /\ Len(lines') >= Len(lines)
           /\ \A i \in 1..Len(lines) : i # ev'.own => lines'[i] = lines[i]
           /\ ev'.op = "streamEnd"
              => lines'[ev'.own].type = "OUTPUT" /\ lines'[ev'.own].text.arr ]_vars

\* C36: in every reachable state, whatever the order in which file reads
\* complete and however they interleave with docs select and docs clear, the
\* active document is unset exactly when the document table is empty, and
\* otherwise names a key of the table.
C36_ActiveIsKey ==
    /\ Falsy(activeDoc) <=> documents = <<>>
    /\ ~Falsy(activeDoc) => HasKey(documents, activeDoc)

\* the payloads the backend returns as images
ImagePayloads == {Payload1, Payload2}

\* C37: in every reachable state the last image is unset or a payload the
\* backend returned as an image in a successful image or editimg response, so
\* that editimg submits nothing but such a payload to the backend.
C37_LastImageIsPayload ==
    /\ Falsy(lastImage) \/ lastImage \in ImagePayloads
    /\ \A t \in tasks : t.kind = "editimg" => t.img \in ImagePayloads

\* C38: in every reachable state the recall cursor i satisfies
\* -1 <= i < length of the command history, so that the entry Up or Down shows
\* exists, however submissions, Up and Down presses and mode changes
\* interleave.
C38_CursorInRange ==
    /\ -1 <= historyIndex
    /\ historyIndex < Len(commandHistory)

\* Up was pressed until the cursor stood on the oldest of two entries
C38_Witness ==
    /\ ev.op = "key" /\ ev.cmd = ARROW_UP
    /\ Len(commandHistory) = 2
    /\ historyIndex = 1
    /\ inputValue = commandHistory[2]
    /\ ~InChatModes

\* C40: when Tab finds one match for the first token, the whole input
\* becomes the matched name and one space, so the argument text typed after
\* the first token is gone (as what is x becomes ask and a space); when the
\* first token is a command name that is also a prefix of another command
\* (chat, chatdoc), Tab leaves the input as it is.
C40_TabDropsArguments ==
    [][ (KeyStep(TAB) /\ ~InChatModes /\ Tokens(inputValue) # <<>>)
        => LET t == Head(Tokens(inputValue))
               M == Prefixed(t)
           IN  /\ Len(M) = 1
                  => /\ Tokens(inputValue') = <<M[1]>>
                     /\ Len(inputValue') = Len(M[1]) + 1
               /\ (IsCommand(t) /\ Len(M) > 1) => inputValue' = inputValue
               /\ inputValue = <<"a","s",SP,"w","h","a","t",SP,"i","s",SP,"x">>
                  => inputValue' = <<"a","s","k",SP>> ]_vars

\* Tab on the question typed after as has left the command alone
C40_Witness ==
    /\ ev.op = "key" /\ ev.cmd = TAB
    /\ inputValue = <<"a","s","k",SP>>
    /\ suggestions = <<>>
    /\ ~InChatModes

\* a video command is in progress
VideoRunning == \E t \in tasks : t.kind = "video"

\* C39: if the backend answers, every submitted command or message finishes
\* with the busy flag cleared and submissions accepted again. For video this
\* rests on the operation reporting done or a poll failing: while the
\* operation is pending the session stays busy, and no input cancels it, since
\* every submission is dropped.
C39_EventuallyIdle ==
    /\ isLoading ~> (~isLoading /\ tasks = {})
    /\ [][ /\ (VideoRunning /\ ev'.op = "submit")
              => ~ev'.ok /\ tasks' = tasks /\ isLoading'
           /\ (ev'.op = "videoPolled" /\ ev'.cmd = <<"pending">>)
              => isLoading' /\ VideoRunning' ]_vars

\* a video whose operation was pending at first has ended with no video, and
\* the terminal takes commands again
C39_Witness ==
    /\ ev.op = "videoPolled" /\ ev.cmd = <<"doneEmpty">>
    /\ ~isLoading /\ tasks = {}
    /\ lines[Len(lines)] = ErrorLine(M_VideoNone)
    /\ nsub < MaxSubmits

====
